---- MODULE Spec2Model ----
(***************************************************************************)
(* Model of ultimate-internet-test: the result store (utils), the ping     *)
(* probe (modules.PingCheck) and the concurrent orchestrator (main).       *)
(***************************************************************************)
EXTENDS Integers, Sequences, FiniteSets, TLC

(***************************************************************************)
(* Bounds of the model.                                                    *)
(***************************************************************************)
NumClients == 2
MaxCalls == 3
MaxNow == 1
MaxFaults == 1
NumHTTP == 2
NumSpeed == 1
MaxArgs == 2

(***************************************************************************)
(* Go values.  A pointer is a sequence of length at most one, a slice is   *)
(* a pointer to its element sequence (so that a nil slice and an empty     *)
(* slice differ), a time.Time is its instant plus the monotonic reading    *)
(* flag that time.Now sets.                                                *)
(***************************************************************************)
Nil == <<>>

Ptr(x) == <<x>>

Deref(p) == p[1]

SliceLen(s) == IF s = Nil THEN 0 ELSE Len(s[1])

Elems(s) == IF s = Nil THEN <<>> ELSE s[1]

AppendSlice(s, xs) == <<Elems(s) \o xs>>

ZeroTime == [inst |-> 0, mono |-> FALSE]

Now(i) == [inst |-> i, mono |-> TRUE]

\* time.Now never returns the zero time, nor the instant of OldTime
Instants == 2..(MaxNow + 1)

OldTime == [inst |-> 1, mono |-> FALSE]

IsZero(t) == t.inst = 0

\* float64 packet loss as an exact fraction; 0/0 is NaN
Frac(n, d) == [num |-> n, den |-> d]

ZeroLoss == Frac(0, 1)

NaN == Frac(0, 0)

ZeroHTTP ==
    [URL |-> "", Status |-> "", Proto |-> "", TLSVersion |-> "",
     CipherSuite |-> "", ServerName |-> "", ResponseLength |-> 0, Error |-> ""]

ZeroSpeed ==
    [URL |-> "", DownloadMbps |-> 0, ElapsedTime |-> 0, BytesReceived |-> 0,
     Error |-> ""]

ZeroVPN == [Status |-> "", Error |-> ""]

ZeroPing ==
    [URL |-> "", Transmitted |-> 0, Received |-> 0, Loss |-> ZeroLoss, Error |-> ""]

ZeroResults ==
    [HTTPTests |-> Nil, SpeedTests |-> Nil, VPNTest |-> ZeroVPN,
     PingTest |-> ZeroPing, Timestamp |-> ZeroTime]

(***************************************************************************)
(* config: the ping settings, durations in seconds.                        *)
(***************************************************************************)
DefaultPingCount == 5

DefaultPingTimeout == 10

New == [PingCount |-> DefaultPingCount, PingTimeout |-> DefaultPingTimeout]

(***************************************************************************)
(* encoding/json as SaveResults and LoadResults use it.  A document field  *)
(* is absent (Nil) or present (a pointer to its value).                    *)
(***************************************************************************)
InvalidUTF8 == "http://host/\\xff"

\* json.Marshal replaces invalid UTF-8 bytes by U+FFFD
CoerceUTF8(s) == IF s = InvalidUTF8 THEN "http://host/\\ufffd" ELSE s

OmitStr(s) == IF s = "" THEN Nil ELSE Ptr(CoerceUTF8(s))

OmitInt(n) == IF n = 0 THEN Nil ELSE Ptr(n)

OmitLoss(l) == IF l = ZeroLoss THEN Nil ELSE Ptr(l)

HTTPDoc(h) ==
    [url |-> Ptr(CoerceUTF8(h.URL)), status |-> Ptr(CoerceUTF8(h.Status)),
     proto |-> OmitStr(h.Proto), tls_version |-> OmitStr(h.TLSVersion),
     cipher_suite |-> OmitStr(h.CipherSuite), server_name |-> OmitStr(h.ServerName),
     response_length |-> OmitInt(h.ResponseLength), error |-> OmitStr(h.Error)]

SpeedDoc(s) ==
    [url |-> Ptr(CoerceUTF8(s.URL)), download_mbps |-> Ptr(s.DownloadMbps),
     elapsed_time |-> Ptr(s.ElapsedTime), bytes_received |-> Ptr(s.BytesReceived),
     error |-> OmitStr(s.Error)]

VPNDoc(v) == [status |-> Ptr(CoerceUTF8(v.Status)), error |-> OmitStr(v.Error)]

PingDoc(p) ==
    [url |-> OmitStr(p.URL), transmitted_packets |-> OmitInt(p.Transmitted),
     received_packets |-> OmitInt(p.Received), loss_packets |-> OmitLoss(p.Loss),
     error |-> OmitStr(p.Error)]

\* omitempty drops a slice of length zero, nil or not; it never drops a struct
HTTPDocs(s) ==
    IF SliceLen(s) = 0 THEN Nil
    ELSE Ptr([i \in 1..SliceLen(s) |-> HTTPDoc(Elems(s)[i])])

SpeedDocsKeepingEmpty(s) == Ptr([i \in 1..SliceLen(s) |-> SpeedDoc(Elems(s)[i])])

SpeedDocs(s) ==
    IF SliceLen(s) = 0 THEN Nil
    ELSE Ptr([i \in 1..SliceLen(s) |-> SpeedDoc(Elems(s)[i])])

MarshalIndent(r) ==
    [http_tests |-> HTTPDocs(r.HTTPTests),
     speed_tests |-> SpeedDocs(r.SpeedTests),
     vpn_test |-> Ptr(VPNDoc(r.VPNTest)),
     ping_test |-> Ptr(PingDoc(r.PingTest)),
     timestamp |-> Ptr(r.Timestamp.inst)]

MarshalNeverFails(r) == FALSE

\* json: unsupported value (NaN cannot be encoded)
MarshalFails(r) == r.PingTest.Loss = NaN

Get(o, d) == IF o = Nil THEN d ELSE o[1]

HTTPOf(d) ==
    [URL |-> Get(d.url, ""), Status |-> Get(d.status, ""), Proto |-> Get(d.proto, ""),
     TLSVersion |-> Get(d.tls_version, ""), CipherSuite |-> Get(d.cipher_suite, ""),
     ServerName |-> Get(d.server_name, ""),
     ResponseLength |-> Get(d.response_length, 0), Error |-> Get(d.error, "")]

SpeedOf(d) ==
    [URL |-> Get(d.url, ""), DownloadMbps |-> Get(d.download_mbps, 0),
     ElapsedTime |-> Get(d.elapsed_time, 0),
     BytesReceived |-> Get(d.bytes_received, 0), Error |-> Get(d.error, "")]

VPNOf(d) == [Status |-> Get(d.status, ""), Error |-> Get(d.error, "")]

PingOfSwapped(d) ==
    [URL |-> Get(d.url, ""), Transmitted |-> Get(d.received_packets, 0),
     Received |-> Get(d.transmitted_packets, 0), Loss |-> Get(d.loss_packets, ZeroLoss),
     Error |-> Get(d.error, "")]

PingOf(d) ==
    [URL |-> Get(d.url, ""), Transmitted |-> Get(d.transmitted_packets, 0),
     Received |-> Get(d.received_packets, 0), Loss |-> Get(d.loss_packets, ZeroLoss),
     Error |-> Get(d.error, "")]

HTTPsOf(o) == IF o = Nil THEN Nil ELSE Ptr([i \in 1..Len(o[1]) |-> HTTPOf(o[1][i])])

SpeedsOf(o) == IF o = Nil THEN Nil ELSE Ptr([i \in 1..Len(o[1]) |-> SpeedOf(o[1][i])])

Unmarshal(d) ==
    [HTTPTests |-> HTTPsOf(d.http_tests),
     SpeedTests |-> SpeedsOf(d.speed_tests),
     VPNTest |-> IF d.vpn_test = Nil THEN ZeroVPN ELSE VPNOf(d.vpn_test[1]),
     PingTest |-> IF d.ping_test = Nil THEN ZeroPing ELSE PingOf(d.ping_test[1]),
     Timestamp |-> [inst |-> Get(d.timestamp, 0), mono |-> FALSE]]

(***************************************************************************)
(* The results file: absent, a complete document, truncated by a write     *)
(* that has not delivered its data, or bytes that are not a document.      *)
(***************************************************************************)
NoDoc == MarshalIndent(ZeroResults)

NoFile == [kind |-> "none", doc |-> NoDoc]

TornFile == [kind |-> "torn", doc |-> NoDoc]

GarbageFile == [kind |-> "garbage", doc |-> NoDoc]

DocFile(d) == [kind |-> "doc", doc |-> d]

(***************************************************************************)
(* State.                                                                  *)
(*   file, resultsMutex      the results file and the package-level mutex  *)
(*   sPc, sOp, sRep, sBuf,   per caller of the store: position, operation, *)
(*   sRet, sApp, sCalls      report pointer, marshalled data, return       *)
(*                           values, AppendResult arguments, calls made    *)
(*   fileSrc, anySaved,      history: the report behind the file's         *)
(*   faults, sSaw            document, some save wrote it whole, injected   *)
(*                           I/O failures, what each LoadResults read      *)
(*   args, mPc, launched,    the pass: command-line arguments, position of *)
(*   mSaves, mOut            main, tasks launched, SaveResults calls made, *)
(*                           what main told the operator                   *)
(*   tPc, tRes, wg, mu       the probe tasks: position, local result, the  *)
(*                           WaitGroup counter, the orchestrator mutex     *)
(*   tOut                    history: what each task's probe returned      *)
(*   httpTests, speedTests,  the shared result containers of the pass      *)
(*   vpnTest, pingTest                                                     *)
(*   terminated              the process was killed                        *)
(*   cfg                     the configuration that the probes are given   *)
(*   pPc, pResult, pReturns  one PingCheck call: position, the result it   *)
(*                           builds, how often it has returned             *)
(*   pTimeout, pCount,       the pinger of the call: Timeout and Count,    *)
(*   pSent, pRecv, pDup,     PacketsSent, PacketsRecv, duplicates seen,    *)
(*   pAwait, pStopped, pErr  sequence numbers awaited, Stop was called,    *)
(*                           the error that Run will return                *)
(*   pClock                  seconds since Run started                     *)
(*   pHooks                  what the call has installed: the interrupt    *)
(*                           handler and the callbacks of the pinger       *)
(*   notified                the ping tasks of the pass whose channel is   *)
(*                           registered with signal.Notify                 *)
(***************************************************************************)
VARIABLES file, resultsMutex, sPc, sOp, sRep, sBuf, sRet, sApp, sCalls,
          fileSrc, anySaved, faults, sSaw,
          args, mPc, launched, mSaves, mOut, tPc, tRes, tOut, wg, mu,
          httpTests, speedTests, vpnTest, pingTest, terminated,
          cfg, pPc, pTimeout, pCount, pClock, pSent, pRecv, pDup, pAwait,
          pStopped, pErr, pResult, pReturns, pHooks, notified

storeVars ==
    <<file, resultsMutex, sPc, sOp, sRep, sBuf, sRet, sApp, sCalls,
      fileSrc, anySaved, faults, sSaw>>

orchVars ==
    <<args, mPc, launched, mSaves, mOut, tPc, tRes, tOut, wg, mu,
      httpTests, speedTests, vpnTest, pingTest, terminated>>

pingVars ==
    <<cfg, pPc, pTimeout, pCount, pClock, pSent, pRecv, pDup, pAwait, pStopped,
      pErr, pResult, pReturns, pHooks, notified>>

vars == <<storeVars, orchVars, pingVars>>

ClientNames == <<"c1", "c2", "c3", "c4">>

Clients == {ClientNames[i] : i \in 1..NumClients}

Callers == {"main"} \cup Clients

NoRet == [res |-> Nil, err |-> ""]

NoApp == [http |-> Nil, speed |-> Nil, vpn |-> Nil, ping |-> Nil]

NoSaw ==
    [seen |-> FALSE, kind |-> "none", src |-> Nil, busy |-> FALSE, settled |-> FALSE,
     failed |-> FALSE]

MutexFreeUnchecked(m) == TRUE

\* sync.Mutex: Lock proceeds only when nobody holds it
MutexFree(m) == m = Nil

(***************************************************************************)
(* utils.LoadResults                                                       *)
(***************************************************************************)
LoadLock(c) ==
    /\ ~terminated
    /\ sPc[c] = "L_lock"
    /\ MutexFree(resultsMutex)
    /\ resultsMutex' = Ptr(c)
    /\ sPc' = [sPc EXCEPT ![c] = "L_read"]
    /\ UNCHANGED <<file, sOp, sRep, sBuf, sRet, sApp, sCalls, fileSrc, anySaved,
                   faults, sSaw>>
    /\ UNCHANGED <<orchVars, pingVars>>

LoadOutcomeNoExistCheck(f, ioerr, i) ==
    IF f.kind = "none" \/ ioerr
    THEN [res |-> Nil, err |-> "network"]
    ELSE IF f.kind = "doc"
    THEN [res |-> Ptr(Unmarshal(f.doc)), err |-> ""]
    ELSE [res |-> Nil, err |-> "parse"]

LoadOutcome(f, ioerr, i) ==
    IF f.kind = "none"
    THEN [res |-> Ptr([ZeroResults EXCEPT !.Timestamp = Now(i)]), err |-> ""]
    ELSE IF ioerr
    THEN [res |-> Nil, err |-> "network"]
    ELSE IF f.kind = "doc"
    THEN [res |-> Ptr(Unmarshal(f.doc)), err |-> ""]
    ELSE [res |-> Nil, err |-> "parse"]

LoadRead(c) ==
    /\ ~terminated
    /\ sPc[c] = "L_read"
    /\ \E ioerr \in BOOLEAN, i \in Instants :
          /\ ioerr => (faults < MaxFaults /\ file.kind # "none")
          /\ sRet' = [sRet EXCEPT ![c] = LoadOutcome(file, ioerr, i)]
          /\ faults' = IF ioerr THEN faults + 1 ELSE faults
          /\ sSaw' = [sSaw EXCEPT ![c] =
                         [seen |-> TRUE, kind |-> file.kind, src |-> fileSrc,
                          busy |-> \E d \in Callers : sPc[d] = "S_writing",
                          settled |-> anySaved /\ faults' = 0,
                          failed |-> ioerr]]
    /\ sPc' = [sPc EXCEPT ![c] = "L_ret"]
    /\ UNCHANGED <<file, resultsMutex, sOp, sRep, sBuf, sApp, sCalls, fileSrc,
                   anySaved>>
    /\ UNCHANGED <<orchVars, pingVars>>

ResultsUnlockOnSuccess(c, err) == IF err = "" THEN Nil ELSE Ptr(c)

\* defer resultsMutex.Unlock(): the mutex after the call of c has returned err
ResultsUnlock(c, err) == Nil

\* the deferred Unlock runs as LoadResults returns
LoadReturn(c) ==
    /\ ~terminated
    /\ sPc[c] = "L_ret"
    /\ resultsMutex' = ResultsUnlock(c, sRet[c].err)
    /\ sPc' = [sPc EXCEPT ![c] = IF sOp[c] = "Append" THEN "A_merge" ELSE "idle"]
    /\ UNCHANGED <<file, sOp, sRep, sBuf, sRet, sApp, sCalls, fileSrc, anySaved,
                   faults, sSaw>>
    /\ UNCHANGED <<orchVars, pingVars>>

(***************************************************************************)
(* utils.SaveResults                                                       *)
(***************************************************************************)
SaveEntry(c) ==
    /\ ~terminated
    /\ sPc[c] = "S_entry"
    /\ IF sRep[c] = Nil
       THEN /\ sRet' = [sRet EXCEPT ![c] = [res |-> Nil, err |-> "validation"]]
            /\ sPc' = [sPc EXCEPT ![c] = "idle"]
       ELSE /\ sPc' = [sPc EXCEPT ![c] = "S_lock"]
            /\ UNCHANGED sRet
    /\ UNCHANGED <<file, resultsMutex, sOp, sRep, sBuf, sApp, sCalls, fileSrc,
                   anySaved, faults, sSaw>>
    /\ UNCHANGED <<orchVars, pingVars>>

SaveLock(c) ==
    /\ ~terminated
    /\ sPc[c] = "S_lock"
    /\ MutexFree(resultsMutex)
    /\ resultsMutex' = Ptr(c)
    /\ sPc' = [sPc EXCEPT ![c] = "S_marshal"]
    /\ UNCHANGED <<file, sOp, sRep, sBuf, sRet, sApp, sCalls, fileSrc, anySaved,
                   faults, sSaw>>
    /\ UNCHANGED <<orchVars, pingVars>>

StampAlways(r, i) == [r EXCEPT !.Timestamp = Now(i)]

\* results.Timestamp = time.Now() when results.Timestamp.IsZero()
Stamp(r, i) == IF IsZero(r.Timestamp) THEN [r EXCEPT !.Timestamp = Now(i)] ELSE r

SaveMarshal(c) ==
    /\ ~terminated
    /\ sPc[c] = "S_marshal"
    /\ \E i \in Instants :
          LET r == Stamp(Deref(sRep[c]), i) IN
          /\ sRep' = [sRep EXCEPT ![c] = Ptr(r)]
          /\ IF MarshalFails(r)
             THEN /\ sRet' = [sRet EXCEPT ![c] = [res |-> Nil, err |-> "parse"]]
                  /\ sPc' = [sPc EXCEPT ![c] = "S_ret"]
                  /\ UNCHANGED sBuf
             ELSE /\ sBuf' = [sBuf EXCEPT ![c] = MarshalIndent(r)]
                  /\ sPc' = [sPc EXCEPT ![c] = "S_write"]
                  /\ UNCHANGED sRet
    /\ UNCHANGED <<file, resultsMutex, sOp, sApp, sCalls, fileSrc, anySaved,
                   faults, sSaw>>
    /\ UNCHANGED <<orchVars, pingVars>>

\* os.WriteFile opens the path with O_TRUNC, or fails and leaves it alone
SaveOpen(c) ==
    /\ ~terminated
    /\ sPc[c] = "S_write"
    /\ \E ok \in BOOLEAN :
          IF ok
          THEN /\ file' = TornFile
               /\ fileSrc' = Nil
               /\ sPc' = [sPc EXCEPT ![c] = "S_writing"]
               /\ UNCHANGED <<sRet, faults>>
          ELSE /\ faults < MaxFaults
               /\ sRet' = [sRet EXCEPT ![c] = [res |-> Nil, err |-> "network"]]
               /\ faults' = faults + 1
               /\ sPc' = [sPc EXCEPT ![c] = "S_ret"]
               /\ UNCHANGED <<file, fileSrc>>
    /\ UNCHANGED <<resultsMutex, sOp, sRep, sBuf, sApp, sCalls, anySaved, sSaw>>
    /\ UNCHANGED <<orchVars, pingVars>>

\* os.WriteFile writes the data, or fails and leaves the truncated file
SaveWrite(c) ==
    /\ ~terminated
    /\ sPc[c] = "S_writing"
    /\ \E ok \in BOOLEAN :
          IF ok
          THEN /\ file' = DocFile(sBuf[c])
               /\ fileSrc' = sRep[c]
               /\ anySaved' = TRUE
               /\ sRet' = [sRet EXCEPT ![c] = [res |-> Nil, err |-> ""]]
               /\ UNCHANGED faults
          ELSE /\ faults < MaxFaults
               /\ sRet' = [sRet EXCEPT ![c] = [res |-> Nil, err |-> "network"]]
               /\ faults' = faults + 1
               /\ UNCHANGED <<file, fileSrc, anySaved>>
    /\ sPc' = [sPc EXCEPT ![c] = "S_ret"]
    /\ UNCHANGED <<resultsMutex, sOp, sRep, sBuf, sApp, sCalls, sSaw>>
    /\ UNCHANGED <<orchVars, pingVars>>

\* the deferred Unlock runs as SaveResults returns
SaveReturn(c) ==
    /\ ~terminated
    /\ sPc[c] = "S_ret"
    /\ resultsMutex' = ResultsUnlock(c, sRet[c].err)
    /\ sPc' = [sPc EXCEPT ![c] = "idle"]
    /\ sBuf' = [sBuf EXCEPT ![c] = NoDoc]
    /\ UNCHANGED <<file, sOp, sRep, sRet, sApp, sCalls, fileSrc, anySaved,
                   faults, sSaw>>
    /\ UNCHANGED <<orchVars, pingVars>>

(***************************************************************************)
(* utils.AppendResult: LoadResults, merge, SaveResults                     *)
(***************************************************************************)
MergeReplacing(base, a, j) ==
    [HTTPTests |-> IF SliceLen(a.http) > 0 THEN a.http ELSE base.HTTPTests,
     SpeedTests |-> IF SliceLen(a.speed) > 0 THEN a.speed ELSE base.SpeedTests,
     VPNTest |-> IF a.vpn # Nil THEN Deref(a.vpn) ELSE base.VPNTest,
     PingTest |-> IF a.ping # Nil THEN Deref(a.ping) ELSE base.PingTest,
     Timestamp |-> Now(j)]

Merge(base, a, j) ==
    [HTTPTests |-> IF SliceLen(a.http) > 0
                   THEN AppendSlice(base.HTTPTests, Elems(a.http))
                   ELSE base.HTTPTests,
     SpeedTests |-> IF SliceLen(a.speed) > 0
                    THEN AppendSlice(base.SpeedTests, Elems(a.speed))
                    ELSE base.SpeedTests,
     VPNTest |-> IF a.vpn # Nil THEN Deref(a.vpn) ELSE base.VPNTest,
     PingTest |-> IF a.ping # Nil THEN Deref(a.ping) ELSE base.PingTest,
     Timestamp |-> Now(j)]

AppendBaseWithStatus(ret, i) ==
    IF ret.err # ""
    THEN [ZeroResults EXCEPT !.Timestamp = Now(i),
                             !.VPNTest = [ZeroVPN EXCEPT !.Status = "unknown"]]
    ELSE Deref(ret.res)

\* results, err := LoadResults(filePath); on error a fresh report
AppendBase(ret, i) ==
    IF ret.err # "" THEN [ZeroResults EXCEPT !.Timestamp = Now(i)] ELSE Deref(ret.res)

AppendMerge(c) ==
    /\ ~terminated
    /\ sPc[c] = "A_merge"
    /\ \E i \in Instants, j \in Instants :
          sRep' = [sRep EXCEPT ![c] = Ptr(Merge(AppendBase(sRet[c], i), sApp[c], j))]
    /\ sPc' = [sPc EXCEPT ![c] = "S_entry"]
    /\ UNCHANGED <<file, resultsMutex, sOp, sBuf, sRet, sApp, sCalls, fileSrc,
                   anySaved, faults, sSaw>>
    /\ UNCHANGED <<orchVars, pingVars>>

(***************************************************************************)
(* Concurrent users of the store: each client makes up to MaxCalls calls   *)
(* of LoadResults, SaveResults or AppendResult on the one path.            *)
(***************************************************************************)
HTTPItem(c) == [ZeroHTTP EXCEPT !.URL = c, !.Status = "200 OK", !.ResponseLength = 7]

SpeedItem(c) == [ZeroSpeed EXCEPT !.URL = c, !.DownloadMbps = 3, !.BytesReceived = 9]

FailedHTTP(c) == [ZeroHTTP EXCEPT !.URL = c, !.Error = "timeout"]

VPNItem == [Status |-> "Using VPN or proxy.", Error |-> ""]

PingItem(c) ==
    [URL |-> c, Transmitted |-> 5, Received |-> 3, Loss |-> Frac(40, 1), Error |-> ""]

EmptyReport(t) ==
    [ZeroResults EXCEPT !.HTTPTests = Ptr(<<>>), !.SpeedTests = Ptr(<<>>),
                        !.Timestamp = t]

FullReport(c, t) ==
    [HTTPTests |-> Ptr(<<HTTPItem(c), FailedHTTP(c)>>),
     SpeedTests |-> Ptr(<<SpeedItem(c)>>),
     VPNTest |-> VPNItem, PingTest |-> PingItem(c), Timestamp |-> t]

BadStringReport ==
    [ZeroResults EXCEPT !.HTTPTests = Ptr(<<[ZeroHTTP EXCEPT !.URL = InvalidUTF8,
                                                            !.Error = "invalid URL"]>>),
                        !.Timestamp = OldTime]

NaNReport ==
    [ZeroResults EXCEPT !.PingTest = [ZeroPing EXCEPT !.URL = "host", !.Loss = NaN,
                                                      !.Error = "socket: permission denied"]]

SaveInputs(c) ==
    {Nil, Ptr(EmptyReport(ZeroTime)), Ptr(FullReport(c, ZeroTime)),
     Ptr(BadStringReport), Ptr(NaNReport)}

AppendInputs(c) ==
    {[http |-> Ptr(<<HTTPItem(c)>>), speed |-> Ptr(<<SpeedItem(c)>>),
      vpn |-> Nil, ping |-> Nil],
     [http |-> Nil, speed |-> Ptr(<<>>), vpn |-> Ptr(VPNItem), ping |-> Ptr(PingItem(c))]}

InitFiles == {NoFile, GarbageFile, DocFile(MarshalIndent(FullReport("old", OldTime)))}

\* the process is a program that uses package utils, not a pass of main
LibraryUse == mPc = "exit" /\ launched = 0

CallLoad(c) ==
    /\ ~terminated
    /\ LibraryUse
    /\ sPc[c] = "idle"
    /\ sCalls < MaxCalls
    /\ sPc' = [sPc EXCEPT ![c] = "L_lock"]
    /\ sOp' = [sOp EXCEPT ![c] = "Load"]
    /\ sCalls' = sCalls + 1
    /\ sRet' = [sRet EXCEPT ![c] = NoRet]
    /\ sSaw' = [sSaw EXCEPT ![c] = NoSaw]
    /\ UNCHANGED <<file, resultsMutex, sRep, sBuf, sApp, fileSrc, anySaved, faults>>
    /\ UNCHANGED <<orchVars, pingVars>>

CallSave(c) ==
    /\ ~terminated
    /\ LibraryUse
    /\ sPc[c] = "idle"
    /\ sCalls < MaxCalls
    /\ \E r \in SaveInputs(c) : sRep' = [sRep EXCEPT ![c] = r]
    /\ sPc' = [sPc EXCEPT ![c] = "S_entry"]
    /\ sOp' = [sOp EXCEPT ![c] = "Save"]
    /\ sCalls' = sCalls + 1
    /\ sRet' = [sRet EXCEPT ![c] = NoRet]
    /\ sSaw' = [sSaw EXCEPT ![c] = NoSaw]
    /\ UNCHANGED <<file, resultsMutex, sBuf, sApp, fileSrc, anySaved, faults>>
    /\ UNCHANGED <<orchVars, pingVars>>

CallAppend(c) ==
    /\ ~terminated
    /\ LibraryUse
    /\ sPc[c] = "idle"
    /\ sCalls < MaxCalls
    /\ \E a \in AppendInputs(c) : sApp' = [sApp EXCEPT ![c] = a]
    /\ sPc' = [sPc EXCEPT ![c] = "L_lock"]
    /\ sOp' = [sOp EXCEPT ![c] = "Append"]
    /\ sCalls' = sCalls + 1
    /\ sRet' = [sRet EXCEPT ![c] = NoRet]
    /\ sSaw' = [sSaw EXCEPT ![c] = NoSaw]
    /\ UNCHANGED <<file, resultsMutex, sRep, sBuf, fileSrc, anySaved, faults>>
    /\ UNCHANGED <<orchVars, pingVars>>

\* no PingCheck call is being followed
NoPing ==
    /\ cfg = New
    /\ pPc = "none"
    /\ pTimeout = 0
    /\ pCount = 0
    /\ pClock = 0
    /\ pSent = 0
    /\ pRecv = 0
    /\ pDup = 0
    /\ pAwait = {}
    /\ pStopped = FALSE
    /\ pErr = ""
    /\ pResult = Nil
    /\ pReturns = 0
    /\ pHooks = {}
    /\ notified = {}

\* nobody is in the store
StoreIdle ==
    /\ resultsMutex = Nil
    /\ sPc = [c \in Callers |-> "idle"]
    /\ sOp = [c \in Callers |-> "none"]
    /\ sRep = [c \in Callers |-> Nil]
    /\ sBuf = [c \in Callers |-> NoDoc]
    /\ sRet = [c \in Callers |-> NoRet]
    /\ sApp = [c \in Callers |-> NoApp]
    /\ sCalls = 0
    /\ fileSrc = Nil
    /\ anySaved = FALSE
    /\ faults = 0
    /\ sSaw = [c \in Callers |-> NoSaw]

\* no pass is running: the store's clients are the whole program
NoPass ==
    /\ args = <<>>
    /\ mPc = "exit"
    /\ launched = 0
    /\ mSaves = 0
    /\ mOut = ""
    /\ tPc = <<>>
    /\ tRes = <<>>
    /\ tOut = <<>>
    /\ wg = 0
    /\ mu = Nil
    /\ httpTests = Nil
    /\ speedTests = Nil
    /\ vpnTest = Nil
    /\ pingTest = Nil
    /\ terminated = FALSE

StoreInit ==
    /\ NoPass
    /\ NoPing
    /\ file \in InitFiles
    /\ StoreIdle

StoreNext ==
    \/ \E c \in Clients : CallLoad(c)
    \/ \E c \in Clients : CallSave(c)
    \/ \E c \in Clients : CallAppend(c)
    \/ \E c \in Clients : LoadLock(c)
    \/ \E c \in Clients : LoadRead(c)
    \/ \E c \in Clients : LoadReturn(c)
    \/ \E c \in Clients : SaveEntry(c)
    \/ \E c \in Clients : SaveLock(c)
    \/ \E c \in Clients : SaveMarshal(c)
    \/ \E c \in Clients : SaveOpen(c)
    \/ \E c \in Clients : SaveWrite(c)
    \/ \E c \in Clients : SaveReturn(c)
    \/ \E c \in Clients : AppendMerge(c)

StoreSpec == StoreInit /\ [][StoreNext]_vars

(***************************************************************************)
(* Properties of the result store, checked under StoreSpec.                *)
(***************************************************************************)
\* caller c holds the values that its LoadResults call returned
Loaded(c) ==
    /\ sSaw[c].seen
    /\ \/ sPc[c] \in {"L_ret", "A_merge"}
       \/ sPc[c] = "idle" /\ sOp[c] = "Load"

\* caller c has returned from AppendResult
Appended(c) == sPc[c] = "idle" /\ sOp[c] = "Append"

InCriticalSection(c) ==
    sPc[c] \in {"L_read", "L_ret", "S_marshal", "S_write", "S_writing", "S_ret"}

FileHasHTTP(h) ==
    /\ file.kind = "doc"
    /\ file.doc.http_tests # Nil
    /\ \E i \in 1..Len(file.doc.http_tests[1]) : file.doc.http_tests[1][i] = HTTPDoc(h)

FileHasSpeed(x) ==
    /\ file.kind = "doc"
    /\ file.doc.speed_tests # Nil
    /\ \E i \in 1..Len(file.doc.speed_tests[1]) : file.doc.speed_tests[1][i] = SpeedDoc(x)

\* C5: when two AppendResult calls on the path have both returned without
\* error (no other call made, no I/O failure), the file holds the HTTP and
\* speed results appended by both: their load-merge-save sequences did not
\* interleave and no update was lost.
C5_NoLostUpdate ==
    \A c \in Clients, d \in Clients :
        (/\ c # d
         /\ Appended(c) /\ Appended(d)
         /\ sRet[c].err = "" /\ sRet[d].err = ""
         /\ SliceLen(sApp[c].http) > 0 /\ SliceLen(sApp[d].http) > 0
         /\ sCalls = 2 /\ faults = 0)
        => /\ FileHasHTTP(HTTPItem(c)) /\ FileHasHTTP(HTTPItem(d))
           /\ FileHasSpeed(SpeedItem(c)) /\ FileHasSpeed(SpeedItem(d))

\* C6: reads and writes of the file are mutually exclusive: at most one
\* caller is between Lock and Unlock, no LoadResults reads while a write is
\* between its truncation and its data, and once some save has completed and
\* none has failed, LoadResults returns without error the report of the
\* document that a completed save wrote whole.
C6_SavesAndLoadsExclusive ==
    /\ Cardinality({c \in Callers : InCriticalSection(c)}) <= 1
    /\ \A c \in Callers : ~sSaw[c].busy
    /\ \A c \in Callers :
          (Loaded(c) /\ sSaw[c].settled)
          => /\ sRet[c].err = ""
             /\ sSaw[c].src # Nil
             /\ sRet[c].res = Ptr(Unmarshal(MarshalIndent(Deref(sSaw[c].src))))

\* two saves ran to completion and a LoadResults after them has returned
C6_Witness ==
    \E c \in Clients, d \in Clients :
        /\ c # d
        /\ Loaded(c) /\ sPc[c] = "idle" /\ sSaw[c].settled
        /\ sCalls = 3
        /\ sPc[d] = "idle" /\ sOp[d] = "Save" /\ sRet[d].err = "" /\ sRep[d] # Nil
        /\ sSaw[c].src # Nil /\ sSaw[c].src # sRep[d]

ValidStr(s) == s # InvalidUTF8

ValidStrings(r) ==
    /\ \A i \in 1..SliceLen(r.HTTPTests) :
          LET h == Elems(r.HTTPTests)[i] IN
          /\ ValidStr(h.URL) /\ ValidStr(h.Status) /\ ValidStr(h.Proto)
          /\ ValidStr(h.TLSVersion) /\ ValidStr(h.CipherSuite)
          /\ ValidStr(h.ServerName) /\ ValidStr(h.Error)
    /\ \A i \in 1..SliceLen(r.SpeedTests) :
          LET x == Elems(r.SpeedTests)[i] IN ValidStr(x.URL) /\ ValidStr(x.Error)
    /\ ValidStr(r.VPNTest.Status) /\ ValidStr(r.VPNTest.Error)
    /\ ValidStr(r.PingTest.URL) /\ ValidStr(r.PingTest.Error)

\* the equality of the round trip: the same sequences, records and instant
SameReport(a, b) ==
    /\ Elems(a.HTTPTests) = Elems(b.HTTPTests)
    /\ Elems(a.SpeedTests) = Elems(b.SpeedTests)
    /\ a.VPNTest = b.VPNTest
    /\ a.PingTest = b.PingTest
    /\ a.Timestamp.inst = b.Timestamp.inst

\* LoadResults of c read the document of a successful SaveResults, no writer
\* in between, and the read itself did not fail
ReadBack(c) == Loaded(c) /\ sSaw[c].src # Nil /\ sRet[c].err # "network"

\* C7 as stated: for every non-nil report, SaveResults then LoadResults
\* returns a report equal to the saved one.
C7_RoundTripEveryReport ==
    \A c \in Callers :
        ReadBack(c)
        => /\ sRet[c].err = ""
           /\ SameReport(Deref(sRet[c].res), Deref(sSaw[c].src))

\* C7 amended: for every non-nil report whose strings are valid UTF-8,
\* SaveResults then LoadResults returns a report equal to the saved one.
C7_RoundTripValidStrings ==
    \A c \in Callers :
        (ReadBack(c) /\ ValidStrings(Deref(sSaw[c].src)))
        => /\ sRet[c].err = ""
           /\ SameReport(Deref(sRet[c].res), Deref(sSaw[c].src))

\* a report with empty sequences and default records was saved and then read
\* back by LoadResults
C7_Witness ==
    \E c \in Clients :
        /\ ReadBack(c)
        /\ sRet[c].err = ""
        /\ sPc[c] = "idle"
        /\ Deref(sSaw[c].src).HTTPTests = Ptr(<<>>)
        /\ Deref(sSaw[c].src).SpeedTests = Ptr(<<>>)
        /\ Deref(sSaw[c].src).VPNTest = ZeroVPN
        /\ Deref(sSaw[c].src).PingTest = ZeroPing

\* C8: LoadResults on a path where no file exists returns no error and a
\* report with empty HTTP and speed sequences, default VPN and ping records
\* and a non-zero timestamp, and it has created no file when it returns.
C8_LoadMissingFile ==
    \A c \in Callers :
        (Loaded(c) /\ sSaw[c].kind = "none")
        => /\ sRet[c].err = ""
           /\ sRet[c].res # Nil
           /\ SliceLen(Deref(sRet[c].res).HTTPTests) = 0
           /\ SliceLen(Deref(sRet[c].res).SpeedTests) = 0
           /\ Deref(sRet[c].res).VPNTest = ZeroVPN
           /\ Deref(sRet[c].res).PingTest = ZeroPing
           /\ ~IsZero(Deref(sRet[c].res).Timestamp)
           /\ sPc[c] = "L_ret" => file = NoFile

\* a plain LoadResults call found no file and has returned
C8_Witness ==
    \E c \in Clients :
        Loaded(c) /\ sSaw[c].kind = "none" /\ sOp[c] = "Load" /\ sPc[c] = "idle"

(***************************************************************************)
(* The probes, as functions of what the network does.                      *)
(***************************************************************************)
HTTPNet == {"badurl", "fail", "readfail", "ok", "okTLS"}

TestHTTPNilOnFailure(u, net) ==
    IF net \in {"badurl", "fail"} THEN Nil
    ELSE Ptr([ZeroHTTP EXCEPT !.URL = u, !.Status = "200 OK", !.Proto = "HTTP/1.1"])

TestHTTPStatusFirst(u, net) ==
    Ptr([ZeroHTTP EXCEPT !.URL = u, !.Status = "200 OK", !.Proto = "HTTP/1.1",
                         !.Error = IF net \in {"ok", "okTLS"} THEN ""
                                   ELSE "request failed"])

TestHTTP(u, net) ==
    LET result == [ZeroHTTP EXCEPT !.URL = u]
        answered == [result EXCEPT !.Status = "200 OK", !.Proto = "HTTP/1.1"]
        secured == IF net = "okTLS"
                   THEN [answered EXCEPT !.TLSVersion = "772", !.CipherSuite = "4865",
                                         !.ServerName = u]
                   ELSE answered
    IN  IF net = "badurl" THEN Ptr([result EXCEPT !.Error = "invalid URL"])
        ELSE IF net = "fail" THEN Ptr([result EXCEPT !.Error = "request failed"])
        ELSE IF net = "readfail" THEN Ptr([answered EXCEPT !.Error = "read failed"])
        ELSE Ptr([secured EXCEPT !.ResponseLength = 7])

SpeedNet == {"fail", "readfail", "ok"}

CheckSpeed(u, net) ==
    LET result == [ZeroSpeed EXCEPT !.URL = u]
    IN  IF net = "fail" THEN Ptr([result EXCEPT !.Error = "request failed"])
        ELSE IF net = "readfail" THEN Ptr([result EXCEPT !.Error = "read failed"])
        ELSE Ptr([result EXCEPT !.ElapsedTime = 2, !.BytesReceived = 9,
                                !.DownloadMbps = 3])

VPNNet ==
    {"fail", "readfail", "nomatch", "badip", "lookupfail", "nolocal", "same", "differ"}

CheckVPN(net) ==
    IF net = "fail" THEN Ptr([ZeroVPN EXCEPT !.Error = "request failed"])
    ELSE IF net = "readfail" THEN Ptr([ZeroVPN EXCEPT !.Error = "read failed"])
    ELSE IF net = "nomatch"
    THEN Ptr([ZeroVPN EXCEPT !.Error = "could not extract IP address from response"])
    ELSE IF net = "badip"
    THEN Ptr([ZeroVPN EXCEPT !.Error = "invalid IP address extracted: 999.1.1.1"])
    ELSE IF net = "lookupfail" THEN Ptr([ZeroVPN EXCEPT !.Error = "lookup failed"])
    ELSE IF net = "nolocal"
    THEN Ptr([ZeroVPN EXCEPT !.Error = "no local IP addresses found"])
    ELSE IF net = "same" THEN Ptr([ZeroVPN EXCEPT !.Status = "Not using VPN or proxy."])
    ELSE Ptr([ZeroVPN EXCEPT !.Status = "Using VPN or proxy."])

RECURSIVE GCD(_, _)
GCD(a, b) == IF b = 0 THEN a ELSE GCD(b, a % b)

PacketLossOfSent(sent, recv) == IF sent = 0 THEN NaN ELSE Frac(sent - recv, sent)

\* Statistics.PacketLoss: (sent - recv) / sent * 100, NaN when nothing was sent
PacketLoss(sent, recv) ==
    IF sent = 0 THEN NaN
    ELSE LET n == (sent - recv) * 100
             g == GCD(n, sent)
         IN Frac(n \div g, sent \div g)

\* what a PingCheck call returns, by how its session ended: the pinger could
\* not be built, Run failed before its loop, the loop ended (count reached,
\* stopped or timed out), or the loop ended on a send or receive error
PingCheckResult(d, o) ==
    LET result == [ZeroPing EXCEPT !.URL = d]
        stats == [result EXCEPT !.Transmitted = o.sent, !.Received = o.recv,
                                !.Loss = PacketLoss(o.sent, o.recv)]
    IN  IF o.kind = "newfail" THEN Ptr([result EXCEPT !.Error = "lookup failed"])
        ELSE IF o.kind = "listenfail"
        THEN Ptr([result EXCEPT !.Error = "socket: permission denied"])
        ELSE IF o.kind = "sendfail" THEN Ptr([stats EXCEPT !.Error = "write failed"])
        ELSE IF o.kind = "recvfail" THEN Ptr([stats EXCEPT !.Error = "read failed"])
        ELSE Ptr(stats)

PingEnd(k, s, r) == [kind |-> k, sent |-> s, recv |-> r]

\* what the network does to the probes of a pass: each probe fails or succeeds
PassHTTPNet == {"fail", "ok"}

PassSpeedNet == {"fail", "ok"}

PassVPNNet == {"fail", "differ"}

PassPingEnds ==
    {PingEnd("newfail", 0, 0), PingEnd("sendfail", 0, 0),
     PingEnd("finished", DefaultPingCount, 3)}

PassFiles == {NoFile, DocFile(MarshalIndent(ZeroResults))}

(***************************************************************************)
(* main: one pass of the orchestrator, runHTTPTests when arguments are     *)
(* given and runAllTests otherwise.                                        *)
(***************************************************************************)
DefaultHTTPURLs ==
    <<"http://www.google.com/", "https://www.google.com/", "https://www.facebook.com/",
      "https://www.youtube.com/", "https://leader.ir/">>

DefaultSpeedURLs == <<"https://ehsanghaffarii.ir", "https://google.com">>

httpURLs == SubSeq(DefaultHTTPURLs, 1, NumHTTP)

speedURLs == SubSeq(DefaultSpeedURLs, 1, NumSpeed)

pingDomains == <<"www.ehsanghaffarii.ir", "www.google.com">>

Task(k, target, i) == [kind |-> k, target |-> target, index |-> i]

TaskListIgnoringArgs(a) ==
    [i \in 1..Len(httpURLs) |-> Task("http", httpURLs[i], i)]
    \o [i \in 1..Len(speedURLs) |-> Task("speed", speedURLs[i], i)]
    \o <<Task("vpn", "http://checkip.dyndns.org/", 1)>>
    \o [i \in 1..Len(pingDomains) |-> Task("ping", pingDomains[i], i)]

\* the goroutines of a pass, in the order in which main starts them
TaskList(a) ==
    IF Len(a) > 0
    THEN [i \in 1..Len(a) |-> Task("arg", a[i], i)]
    ELSE [i \in 1..Len(httpURLs) |-> Task("http", httpURLs[i], i)]
         \o [i \in 1..Len(speedURLs) |-> Task("speed", speedURLs[i], i)]
         \o <<Task("vpn", "http://checkip.dyndns.org/", 1)>>
         \o [i \in 1..Len(pingDomains) |-> Task("ping", pingDomains[i], i)]

Tasks == TaskList(args)

TaskIds == 1..Len(Tasks)

ArgURLs == {"http://a.example/", InvalidUTF8}

RECURSIVE SeqsUpTo(_, _)
SeqsUpTo(S, n) ==
    IF n = 0 THEN {<<>>}
    ELSE LET shorter == SeqsUpTo(S, n - 1)
         IN shorter \cup {Append(q, x) : q \in shorter, x \in S}

ArgLists == SeqsUpTo(ArgURLs, MaxArgs)

\* wg.Add(1); go func ...
Launch ==
    /\ ~terminated
    /\ mPc = "launch"
    /\ launched < Len(Tasks)
    /\ launched' = launched + 1
    /\ wg' = wg + 1
    /\ tPc' = [tPc EXCEPT ![launched + 1] = "probe"]
    /\ UNCHANGED <<args, tOut, mPc, mSaves, mOut, tRes, mu, httpTests, speedTests, vpnTest,
                   pingTest, terminated>>
    /\ UNCHANGED <<storeVars, pingVars>>

\* runHTTPTests: httpTests[index] = modules.TestHTTP(u, cfg), and the deferred
\* wg.Done() as the goroutine returns
ArgProbe(t) ==
    /\ ~terminated
    /\ tPc[t] = "probe"
    /\ Tasks[t].kind = "arg"
    /\ \E net \in HTTPNet :
          /\ httpTests' = Ptr([Elems(httpTests) EXCEPT ![Tasks[t].index] =
                                   TestHTTP(Tasks[t].target, net)])
          /\ tOut' = [tOut EXCEPT ![t] = TestHTTP(Tasks[t].target, net)]
    /\ wg' = wg - 1
    /\ tPc' = [tPc EXCEPT ![t] = "done"]
    /\ UNCHANGED <<args, mPc, launched, mSaves, mOut, tRes, mu, speedTests,
                   vpnTest, pingTest, terminated>>
    /\ UNCHANGED <<storeVars, pingVars>>

\* runAllTests: result := modules.TestHTTP(u, cfg)
HTTPProbe(t) ==
    /\ ~terminated
    /\ tPc[t] = "probe"
    /\ Tasks[t].kind = "http"
    /\ \E net \in PassHTTPNet :
          /\ tRes' = [tRes EXCEPT ![t] = TestHTTP(Tasks[t].target, net)]
          /\ tOut' = [tOut EXCEPT ![t] = TestHTTP(Tasks[t].target, net)]
    /\ tPc' = [tPc EXCEPT ![t] = "lock"]
    /\ UNCHANGED <<args, mPc, launched, mSaves, mOut, wg, mu, httpTests, speedTests,
                   vpnTest, pingTest, terminated>>
    /\ UNCHANGED <<storeVars, pingVars>>

\* result := modules.CheckSpeed(u, cfg)
SpeedProbe(t) ==
    /\ ~terminated
    /\ tPc[t] = "probe"
    /\ Tasks[t].kind = "speed"
    /\ \E net \in PassSpeedNet :
          /\ tRes' = [tRes EXCEPT ![t] = CheckSpeed(Tasks[t].target, net)]
          /\ tOut' = [tOut EXCEPT ![t] = CheckSpeed(Tasks[t].target, net)]
    /\ tPc' = [tPc EXCEPT ![t] = "lock"]
    /\ UNCHANGED <<args, mPc, launched, mSaves, mOut, wg, mu, httpTests, speedTests,
                   vpnTest, pingTest, terminated>>
    /\ UNCHANGED <<storeVars, pingVars>>

\* vpnTest = modules.CheckVPN(...), written without the mutex, and the
\* deferred wg.Done()
VPNProbe(t) ==
    /\ ~terminated
    /\ tPc[t] = "probe"
    /\ Tasks[t].kind = "vpn"
    /\ \E net \in PassVPNNet :
          /\ vpnTest' = CheckVPN(net)
          /\ tOut' = [tOut EXCEPT ![t] = CheckVPN(net)]
    /\ wg' = wg - 1
    /\ tPc' = [tPc EXCEPT ![t] = "done"]
    /\ UNCHANGED <<args, mPc, launched, mSaves, mOut, tRes, mu, httpTests,
                   speedTests, pingTest, terminated>>
    /\ UNCHANGED <<storeVars, pingVars>>

\* result := modules.PingCheck(d, cfg)
PingProbe(t) ==
    /\ ~terminated
    /\ tPc[t] = "probe"
    /\ Tasks[t].kind = "ping"
    /\ \E o \in PassPingEnds :
          /\ tRes' = [tRes EXCEPT ![t] = PingCheckResult(Tasks[t].target, o)]
          /\ tOut' = [tOut EXCEPT ![t] = PingCheckResult(Tasks[t].target, o)]
    /\ tPc' = [tPc EXCEPT ![t] = "lock"]
    /\ UNCHANGED <<args, mPc, launched, mSaves, mOut, wg, mu, httpTests, speedTests,
                   vpnTest, pingTest, terminated>>
    /\ UNCHANGED <<storeVars, pingVars>>

\* mu.Lock()
TaskLock(t) ==
    /\ ~terminated
    /\ tPc[t] = "lock"
    /\ MutexFree(mu)
    /\ mu' = Ptr(t)
    /\ tPc' = [tPc EXCEPT ![t] = "cs"]
    /\ UNCHANGED <<args, tOut, mPc, launched, mSaves, mOut, tRes, wg, httpTests,
                   speedTests, vpnTest, pingTest, terminated>>
    /\ UNCHANGED <<storeVars, pingVars>>

KeepLast(slot, result) == result

\* if pingTest == nil { pingTest = result }
KeepFirst(slot, result) == IF slot = Nil THEN result ELSE slot

UnlockSkipped(t) == Ptr(t)

\* mu.Unlock() by the holder t
Unlocked(t) == Nil

\* the statement between mu.Lock() and mu.Unlock(), mu.Unlock(), and the
\* deferred wg.Done() as the goroutine returns
TaskStore(t) ==
    /\ ~terminated
    /\ tPc[t] = "cs"
    /\ mu' = Unlocked(t)
    /\ tRes' = [tRes EXCEPT ![t] = Nil]
    /\ httpTests' = IF Tasks[t].kind = "http"
                    THEN AppendSlice(httpTests, <<tRes[t]>>) ELSE httpTests
    /\ speedTests' = IF Tasks[t].kind = "speed"
                     THEN AppendSlice(speedTests, <<tRes[t]>>) ELSE speedTests
    /\ pingTest' = IF Tasks[t].kind = "ping"
                   THEN KeepFirst(pingTest, tRes[t]) ELSE pingTest
    /\ wg' = wg - 1
    /\ tPc' = [tPc EXCEPT ![t] = "done"]
    /\ UNCHANGED <<args, tOut, mPc, launched, mSaves, mOut, vpnTest, terminated>>
    /\ UNCHANGED <<storeVars, pingVars>>

WaitReturnsAtOnce(n) == TRUE

\* wg.Wait() returns when the counter is zero
WaitReturns(n) == n = 0

Wait ==
    /\ ~terminated
    /\ mPc = "launch"
    /\ launched = Len(Tasks)
    /\ WaitReturns(wg)
    /\ mPc' = "collect"
    /\ UNCHANGED <<args, tOut, launched, mSaves, mOut, tPc, tRes, wg, mu, httpTests,
                   speedTests, vpnTest, pingTest, terminated>>
    /\ UNCHANGED <<storeVars, pingVars>>

\* the conversion loops: the non-nil pointers, dereferenced, in order
Values(ptrs) ==
    LET RECURSIVE Go(_, _)
        Go(i, acc) ==
            IF i > SliceLen(ptrs) THEN acc
            ELSE IF Elems(ptrs)[i] # Nil
            THEN Go(i + 1, AppendSlice(acc, <<Deref(Elems(ptrs)[i])>>))
            ELSE Go(i + 1, acc)
    IN Go(1, Nil)

\* the report that the pass hands to SaveResults
Report ==
    [HTTPTests |-> Values(httpTests),
     SpeedTests |-> Values(speedTests),
     VPNTest |-> IF vpnTest # Nil THEN Deref(vpnTest) ELSE ZeroVPN,
     PingTest |-> IF pingTest # Nil THEN Deref(pingTest) ELSE ZeroPing,
     Timestamp |-> ZeroTime]

\* build testResults and call utils.SaveResults
Collect ==
    /\ ~terminated
    /\ mPc = "collect"
    /\ sRep' = [sRep EXCEPT !["main"] = Ptr(Report)]
    /\ sPc' = [sPc EXCEPT !["main"] = "S_entry"]
    /\ sOp' = [sOp EXCEPT !["main"] = "Save"]
    /\ mSaves' = mSaves + 1
    /\ mPc' = "saving"
    /\ UNCHANGED <<args, tOut, launched, mOut, tPc, tRes, wg, mu, httpTests, speedTests,
                   vpnTest, pingTest, terminated>>
    /\ UNCHANGED <<file, resultsMutex, sBuf, sRet, sApp, sCalls, fileSrc, anySaved,
                   faults, sSaw>>
    /\ UNCHANGED pingVars

SaveMessageIgnoringError(err, full) == IF full THEN "Results saved" ELSE ""

\* what main tells the operator once SaveResults has returned
SaveMessage(err, full) ==
    IF err # "" THEN "Error saving results"
    ELSE IF full THEN "Results saved" ELSE ""

\* SaveResults has returned: log the error, or (runAllTests) announce the file
Announce ==
    /\ ~terminated
    /\ mPc = "saving"
    /\ sPc["main"] = "idle"
    /\ mOut' = SaveMessage(sRet["main"].err, Len(args) = 0)
    /\ mPc' = "exit"
    /\ UNCHANGED <<args, tOut, launched, mSaves, tPc, tRes, wg, mu, httpTests, speedTests,
                   vpnTest, pingTest, terminated>>
    /\ UNCHANGED <<storeVars, pingVars>>

\* the process is killed (a signal that nothing handles): its goroutines and
\* its memory are gone, the file stays as it is; mPc, mSaves and mOut keep
\* what main had done by then
Terminate ==
    /\ ~terminated
    /\ mPc # "exit"
    /\ terminated' = TRUE
    /\ tPc' = [t \in TaskIds |-> "dead"]
    /\ tRes' = [t \in TaskIds |-> Nil]
    /\ tOut' = [t \in TaskIds |-> Nil]
    /\ wg' = 0
    /\ mu' = Nil
    /\ httpTests' = Nil
    /\ speedTests' = Nil
    /\ vpnTest' = Nil
    /\ pingTest' = Nil
    /\ resultsMutex' = Nil
    /\ sPc' = [c \in Callers |-> "idle"]
    /\ sOp' = [c \in Callers |-> "none"]
    /\ sRep' = [c \in Callers |-> Nil]
    /\ sBuf' = [c \in Callers |-> NoDoc]
    /\ sRet' = [c \in Callers |-> NoRet]
    /\ UNCHANGED <<args, mPc, launched, mSaves, mOut>>
    /\ UNCHANGED <<file, sApp, sCalls, fileSrc, anySaved, faults, sSaw>>
    /\ UNCHANGED pingVars

Init ==
    /\ args \in ArgLists
    /\ mPc = "launch"
    /\ launched = 0
    /\ mSaves = 0
    /\ mOut = ""
    /\ tPc = [t \in TaskIds |-> "new"]
    /\ tRes = [t \in TaskIds |-> Nil]
    /\ tOut = [t \in TaskIds |-> Nil]
    /\ wg = 0
    /\ mu = Nil
    /\ httpTests = IF Len(args) > 0 THEN Ptr([i \in 1..Len(args) |-> Nil]) ELSE Nil
    /\ speedTests = Nil
    /\ vpnTest = Nil
    /\ pingTest = Nil
    /\ terminated = FALSE
    /\ file \in PassFiles
    /\ StoreIdle
    /\ NoPing

Next ==
    \/ Launch
    \/ Wait
    \/ Collect
    \/ SaveEntry("main")
    \/ SaveLock("main")
    \/ SaveMarshal("main")
    \/ SaveOpen("main")
    \/ SaveWrite("main")
    \/ SaveReturn("main")
    \/ Announce
    \/ \E t \in TaskIds : ArgProbe(t)
    \/ \E t \in TaskIds : HTTPProbe(t)
    \/ \E t \in TaskIds : SpeedProbe(t)
    \/ \E t \in TaskIds : VPNProbe(t)
    \/ \E t \in TaskIds : PingProbe(t)
    \/ \E t \in TaskIds : TaskLock(t)
    \/ \E t \in TaskIds : TaskStore(t)
    \/ Terminate

Spec == Init /\ [][Next]_vars

\* the pass under fair scheduling: the process is not killed, and a step
\* that stays possible is eventually taken (every probe call returns)
FairNext ==
    \/ Launch
    \/ Wait
    \/ Collect
    \/ SaveEntry("main")
    \/ SaveLock("main")
    \/ SaveMarshal("main")
    \/ SaveOpen("main")
    \/ SaveWrite("main")
    \/ SaveReturn("main")
    \/ Announce
    \/ \E t \in TaskIds : ArgProbe(t)
    \/ \E t \in TaskIds : HTTPProbe(t)
    \/ \E t \in TaskIds : SpeedProbe(t)
    \/ \E t \in TaskIds : VPNProbe(t)
    \/ \E t \in TaskIds : PingProbe(t)
    \/ \E t \in TaskIds : TaskLock(t)
    \/ \E t \in TaskIds : TaskStore(t)

FairInit == Init /\ file = NoFile

FairSpec == FairInit /\ [][FairNext]_vars /\ WF_vars(FairNext)

\* the process is a pass of main or a program that uses package utils
ProgramNext ==
    \/ Launch
    \/ Wait
    \/ Collect
    \/ Announce
    \/ \E t \in DOMAIN tPc : ArgProbe(t)
    \/ \E t \in DOMAIN tPc : HTTPProbe(t)
    \/ \E t \in DOMAIN tPc : SpeedProbe(t)
    \/ \E t \in DOMAIN tPc : VPNProbe(t)
    \/ \E t \in DOMAIN tPc : PingProbe(t)
    \/ \E t \in DOMAIN tPc : TaskLock(t)
    \/ \E t \in DOMAIN tPc : TaskStore(t)
    \/ Terminate
    \/ \E c \in Clients : CallLoad(c)
    \/ \E c \in Clients : CallSave(c)
    \/ \E c \in Clients : CallAppend(c)
    \/ \E c \in Clients : LoadLock(c)
    \/ \E c \in Clients : LoadRead(c)
    \/ \E c \in Clients : LoadReturn(c)
    \/ \E c \in Callers : SaveEntry(c)
    \/ \E c \in Callers : SaveLock(c)
    \/ \E c \in Callers : SaveMarshal(c)
    \/ \E c \in Callers : SaveOpen(c)
    \/ \E c \in Callers : SaveWrite(c)
    \/ \E c \in Callers : SaveReturn(c)
    \/ \E c \in Clients : AppendMerge(c)

ProgramSpec == (Init \/ StoreInit) /\ [][ProgramNext]_vars

(***************************************************************************)
(* Properties of a pass, checked under Spec and FairSpec.                  *)
(***************************************************************************)
\* main has handed its report to SaveResults and the process is alive
Handed == mPc \in {"saving", "exit"} /\ ~terminated

FullPass == Len(args) = 0

TasksOf(k) == {t \in TaskIds : Tasks[t].kind = k}

\* how often the report holds the result that the probe of task t returned
Occurrences(r, t) ==
    IF Tasks[t].kind = "http"
    THEN Cardinality({j \in 1..SliceLen(r.HTTPTests) :
                         Elems(r.HTTPTests)[j] = Deref(tOut[t])})
    ELSE IF Tasks[t].kind = "speed"
    THEN Cardinality({j \in 1..SliceLen(r.SpeedTests) :
                         Elems(r.SpeedTests)[j] = Deref(tOut[t])})
    ELSE IF Tasks[t].kind = "vpn"
    THEN IF r.VPNTest = Deref(tOut[t]) THEN 1 ELSE 0
    ELSE IF r.PingTest = Deref(tOut[t]) THEN 1 ELSE 0

\* C1 as stated: after a full pass the report handed to SaveResults holds
\* exactly one result for every launched task of every kind, ping included.
C1_OneResultPerTask ==
    (Handed /\ FullPass)
    => LET r == Deref(sRep["main"]) IN
       /\ \A t \in TaskIds : Occurrences(r, t) = 1
       /\ SliceLen(r.HTTPTests) = Len(httpURLs)
       /\ SliceLen(r.SpeedTests) = Len(speedURLs)

\* C1 amended: after a full pass the report handed to SaveResults holds
\* exactly one result for every HTTP task, every speed task and the VPN task,
\* none duplicated and none dropped, for every completion order, and the
\* result of exactly one of the ping tasks.
C1_OneResultPerSlot ==
    (Handed /\ FullPass)
    => LET r == Deref(sRep["main"]) IN
       /\ \A t \in TasksOf("http") \cup TasksOf("speed") \cup TasksOf("vpn") :
             Occurrences(r, t) = 1
       /\ SliceLen(r.HTTPTests) = Len(httpURLs)
       /\ SliceLen(r.SpeedTests) = Len(speedURLs)
       /\ Cardinality({t \in TasksOf("ping") : Occurrences(r, t) = 1}) = 1

\* a full pass has saved a report whose HTTP results are not in launch order
C1_Witness ==
    /\ mPc = "exit" /\ ~terminated /\ FullPass
    /\ sRet["main"].err = ""
    /\ SliceLen(Deref(sRep["main"]).HTTPTests) = Len(httpURLs)
    /\ Elems(Deref(sRep["main"]).HTTPTests)[1].URL = httpURLs[Len(httpURLs)]

\* C2: SaveResults is called at most once in a pass, never while a launched
\* task has not finished, and a process killed before the join has completed
\* has written no report: the file is as the pass found it.
C2_SaveOnceAfterJoin ==
    /\ mSaves <= 1
    /\ (mSaves = 1 /\ ~terminated)
       => /\ launched = Len(Tasks)
          /\ wg = 0
          /\ \A t \in TaskIds : tPc[t] = "done"
    /\ mPc = "launch" => (mSaves = 0 /\ file \in PassFiles)

\* the process was killed while the join was waiting for launched tasks
C2_Witness ==
    /\ terminated
    /\ mPc = "launch"
    /\ launched = Len(Tasks)
    /\ Len(Tasks) > 0

\* C4: under fair scheduling, with every probe call returning, wg.Wait
\* returns and the pass reaches its SaveResults call with every task done:
\* no task has stayed blocked on the orchestrator mutex.
C4_JoinTerminates == <>(mSaves = 1 /\ \A t \in TaskIds : tPc[t] = "done")

\* every task of a full pass has stored its result and released the mutex,
\* and the pass has called SaveResults
C4_Witness ==
    /\ mSaves = 1
    /\ FullPass
    /\ \A t \in TaskIds : tPc[t] = "done"

(***************************************************************************)
(* modules.PingCheck: one call, followed through the session of its        *)
(* pinger.  pClock counts the seconds since Run started; the pinger sends  *)
(* one echo request as its loop starts and one more each second.           *)
(***************************************************************************)
MaxClock == 12

MaxDup == 2

\* the Timeout that ping.NewPinger gives a pinger: 100000 s or more
PingerDefaultTimeout == 100000

PingCounts == {1, DefaultPingCount}

PingDomain == pingDomains[2]

AllHooks == {"signal", "OnRecv", "OnDuplicateRecv", "OnFinish"}

InstalledAlways(ok) == AllHooks

\* signal.Notify and the callbacks come after the check of NewPinger's error
Installed(ok) == IF ok THEN AllHooks ELSE {}

\* result := &utils.PingTest{URL: domain}; ping.NewPinger(domain);
\* pinger.Count = cfg.PingCount; signal.Notify and the goroutine that stops
\* the pinger on an interrupt; the three callbacks
PingNew ==
    /\ pPc = "call"
    /\ \E ok \in BOOLEAN :
          /\ pHooks' = Installed(ok)
          /\ IF ok
             THEN /\ pResult' = Ptr([ZeroPing EXCEPT !.URL = PingDomain])
                  /\ pTimeout' = PingerDefaultTimeout
                  /\ pCount' = cfg.PingCount
                  /\ pPc' = "created"
                  /\ UNCHANGED pReturns
             ELSE /\ pResult' = PingCheckResult(PingDomain, PingEnd("newfail", 0, 0))
                  /\ pPc' = "returned"
                  /\ pReturns' = pReturns + 1
                  /\ UNCHANGED <<pTimeout, pCount>>
    /\ UNCHANGED <<cfg, pClock, pSent, pRecv, pDup, pAwait, pStopped, pErr>>
    /\ UNCHANGED <<storeVars, orchVars, notified>>

\* pinger.Run() up to its loop: it cannot listen and returns the error at
\* once, or it starts the loop, whose first echo request is sent or fails
PingRun ==
    /\ pPc = "created"
    /\ \E o \in {"ok", "listenfail", "sendfail"} :
          IF o = "listenfail"
          THEN /\ pResult' = PingCheckResult(PingDomain, PingEnd("listenfail", 0, 0))
               /\ pPc' = "returned"
               /\ pReturns' = pReturns + 1
               /\ UNCHANGED <<pSent, pAwait, pErr>>
          ELSE /\ pPc' = "running"
               /\ pSent' = IF o = "ok" THEN 1 ELSE 0
               /\ pAwait' = IF o = "ok" THEN {0} ELSE {}
               /\ pErr' = IF o = "ok" THEN "" ELSE "write failed"
               /\ UNCHANGED <<pResult, pReturns>>
    /\ UNCHANGED <<cfg, pTimeout, pCount, pClock, pRecv, pDup, pStopped>>
    /\ UNCHANGED <<storeVars, orchVars, pHooks, notified>>

CountReachedEarly(recv, count) == count > 0 /\ recv >= 1

\* if p.Count > 0 && p.PacketsRecv >= p.Count { return nil }
CountReached(recv, count) == count > 0 /\ recv >= count

LoopEndsIgnoringStop ==
    \/ pErr # ""
    \/ pClock >= pTimeout
    \/ CountReached(pRecv, pCount)

\* the loop of the pinger ends: Stop was called, a send or receive failed,
\* the Timeout elapsed, or Count replies were received
LoopEnds ==
    \/ pStopped
    \/ pErr # ""
    \/ pClock >= pTimeout
    \/ CountReached(pRecv, pCount)

\* a second passes: the interval ticker fires and the pinger sends the next
\* echo request unless it has sent Count of them
PingTick ==
    /\ pPc = "running"
    /\ ~LoopEnds
    /\ pClock < MaxClock
    /\ pClock' = pClock + 1
    /\ IF pCount > 0 /\ pSent >= pCount
       THEN UNCHANGED <<pSent, pAwait>>
       ELSE /\ pSent' = pSent + 1
            /\ pAwait' = pAwait \cup {pSent}
    /\ UNCHANGED <<cfg, pPc, pTimeout, pCount, pRecv, pDup, pStopped, pErr, pResult,
                   pReturns>>
    /\ UNCHANGED <<storeVars, orchVars, pHooks, notified>>

InFlightUnchecked(seq, awaiting) == TRUE

\* processPacket: a reply counts when its sequence number is awaited
InFlight(seq, awaiting) == seq \in awaiting

\* an echo reply to a request of this session arrives: the receive event
\* (OnRecv logs it) or the duplicate-receive event (OnDuplicateRecv logs it)
PingRecv ==
    /\ pPc = "running"
    /\ ~CountReached(pRecv, pCount)
    /\ pErr = ""
    /\ \E seq \in 0..(pSent - 1) :
          /\ InFlight(seq, pAwait)
          /\ pAwait' = pAwait \ {seq}
          /\ pRecv' = pRecv + 1
    /\ UNCHANGED <<cfg, pPc, pTimeout, pCount, pClock, pSent, pDup, pStopped, pErr,
                   pResult, pReturns>>
    /\ UNCHANGED <<storeVars, orchVars, pHooks, notified>>

PingDuplicateRecv ==
    /\ pPc = "running"
    /\ ~CountReached(pRecv, pCount)
    /\ pErr = ""
    /\ pDup < MaxDup
    /\ \E seq \in 0..(pSent - 1) : ~InFlight(seq, pAwait)
    /\ pDup' = pDup + 1
    /\ UNCHANGED <<cfg, pPc, pTimeout, pCount, pClock, pSent, pRecv, pAwait, pStopped,
                   pErr, pResult, pReturns>>
    /\ UNCHANGED <<storeVars, orchVars, pHooks, notified>>

\* reading from the socket fails: Run will return the error
PingRecvError ==
    /\ pPc = "running"
    /\ ~CountReached(pRecv, pCount)
    /\ pErr = ""
    /\ pErr' = "read failed"
    /\ UNCHANGED <<cfg, pPc, pTimeout, pCount, pClock, pSent, pRecv, pDup, pAwait,
                   pStopped, pResult, pReturns>>
    /\ UNCHANGED <<storeVars, orchVars, pHooks, notified>>

\* an interrupt is delivered: the goroutine of PingCheck calls pinger.Stop()
PingInterrupt ==
    /\ pPc \in {"created", "running"}
    /\ ~pStopped
    /\ pStopped' = TRUE
    /\ UNCHANGED <<cfg, pPc, pTimeout, pCount, pClock, pSent, pRecv, pDup, pAwait,
                   pErr, pResult, pReturns>>
    /\ UNCHANGED <<storeVars, orchVars, pHooks, notified>>

\* the loop has ended and the finish event fires: OnFinish copies the
\* statistics of the pinger into the result
PingFinish ==
    /\ pPc = "running"
    /\ LoopEnds
    /\ pResult' = Ptr([Deref(pResult) EXCEPT !.Transmitted = pSent,
                                             !.Received = pRecv,
                                             !.Loss = PacketLoss(pSent, pRecv)])
    /\ pPc' = "finished"
    /\ UNCHANGED <<cfg, pTimeout, pCount, pClock, pSent, pRecv, pDup, pAwait, pStopped,
                   pErr, pReturns>>
    /\ UNCHANGED <<storeVars, orchVars, pHooks, notified>>

\* Run returns: PingCheck records its error, if any, and returns the result
PingReturn ==
    /\ pPc = "finished"
    /\ pResult' = Ptr([Deref(pResult) EXCEPT !.Error = pErr])
    /\ pPc' = "returned"
    /\ pReturns' = pReturns + 1
    /\ UNCHANGED <<cfg, pTimeout, pCount, pClock, pSent, pRecv, pDup, pAwait, pStopped,
                   pErr>>
    /\ UNCHANGED <<storeVars, orchVars, pHooks, notified>>

PingInit ==
    /\ NoPass
    /\ StoreIdle
    /\ file = NoFile
    /\ cfg \in {[New EXCEPT !.PingCount = n] : n \in PingCounts}
    /\ pPc = "call"
    /\ pTimeout = 0
    /\ pCount = 0
    /\ pClock = 0
    /\ pSent = 0
    /\ pRecv = 0
    /\ pDup = 0
    /\ pAwait = {}
    /\ pStopped = FALSE
    /\ pErr = ""
    /\ pResult = Nil
    /\ pReturns = 0
    /\ pHooks = {}
    /\ notified = {}

PingNext ==
    \/ PingNew
    \/ PingRun
    \/ PingTick
    \/ PingRecv
    \/ PingDuplicateRecv
    \/ PingRecvError
    \/ PingInterrupt
    \/ PingFinish
    \/ PingReturn

PingSpec == PingInit /\ [][PingNext]_vars

\* the call under fair scheduling: once the loop of the pinger can end it
\* does, the finish event fires, and Run and PingCheck return
FairPingSpec ==
    PingInit /\ [][PingNext]_vars /\ WF_vars(PingFinish) /\ WF_vars(PingReturn)

(***************************************************************************)
(* Properties of a PingCheck call, checked under PingSpec.                 *)
(***************************************************************************)
\* C3: a probe call never blocks past its configured timeout: a PingCheck
\* call that has not returned is no more than cfg.PingTimeout seconds into
\* its run, whatever the network does.
C3_PingReturnsWithinTimeout ==
    pPc \in {"created", "running", "finished"} => pClock <= cfg.PingTimeout

\* C9: a PingCheck call returns at most once, and only on a failure to build
\* or to start the pinger, or after the finish event of a session whose echo
\* sequence has ended (stopped, failed, timed out, or Count replies received):
\* no receive or duplicate-receive event makes it return while the sequence
\* is running.
C9_ReturnsOnceAfterFinish ==
    /\ [](pReturns <= 1 /\ (pPc = "returned" <=> pReturns = 1))
    /\ [][pReturns' # pReturns
          => /\ pReturns = 0 /\ pReturns' = 1
             /\ \/ pPc \in {"call", "created"} /\ Deref(pResult').Error # ""
                \/ /\ pPc = "finished"
                   /\ \/ pStopped
                      \/ pErr # ""
                      \/ pClock >= pTimeout
                      \/ pRecv >= pCount]_vars

\* the call has returned after all Count replies and some duplicates arrived
C9_Witness ==
    /\ pPc = "returned"
    /\ pReturns = 1
    /\ pCount = DefaultPingCount
    /\ pRecv = pCount
    /\ pDup >= 1
    /\ ~pStopped

\* C10: in every state of a ping session received <= transmitted, in the
\* pinger and in the result; a receive event never raises received above
\* transmitted, and a duplicate-receive event leaves received and the result
\* unchanged.
C10_ReceivedBounded ==
    /\ [](/\ pRecv <= pSent
          /\ pResult # Nil => Deref(pResult).Received <= Deref(pResult).Transmitted)
    /\ [][pRecv' # pRecv => (pRecv' = pRecv + 1 /\ pRecv' <= pSent')]_vars
    /\ [][pDup' # pDup => (pRecv' = pRecv /\ pResult' = pResult)]_vars

\* every request sent so far was answered, and duplicates of the replies
\* arrived as well
C10_Witness ==
    /\ pPc = "running"
    /\ pSent >= 2
    /\ pRecv = pSent
    /\ pDup = MaxDup

\* the session of the call ran and ended without a failure, and the call
\* has returned
FinishedNormally == pPc = "returned" /\ pSent >= 1 /\ pErr = ""

\* C11: when a ping session finishes normally, the returned PingTest has
\* Transmitted = packets sent, Received = distinct replies received,
\* Loss = (Transmitted - Received) / Transmitted * 100 and an empty Error;
\* with five sent, five receives give {5, 5, 0} and three give {5, 3, 40}.
C11_FinishedStatistics ==
    FinishedNormally
    => LET r == Deref(pResult) IN
       /\ r.URL = PingDomain
       /\ r.Transmitted = pSent
       /\ r.Received = pSent - Cardinality(pAwait)
       /\ r.Loss.den # 0
       /\ r.Loss.num * r.Transmitted = (r.Transmitted - r.Received) * 100 * r.Loss.den
       /\ r.Error = ""
       /\ (pSent = 5 /\ Cardinality(pAwait) = 0)
          => r = [URL |-> PingDomain, Transmitted |-> 5, Received |-> 5,
                  Loss |-> Frac(0, 1), Error |-> ""]
       /\ (pSent = 5 /\ Cardinality(pAwait) = 2)
          => r = [URL |-> PingDomain, Transmitted |-> 5, Received |-> 3,
                  Loss |-> Frac(40, 1), Error |-> ""]

\* a session with Count = 5 received all five replies, nobody stopped it, and
\* the call has returned
C11_Witness ==
    /\ FinishedNormally
    /\ ~pStopped
    /\ pCount = 5
    /\ pSent = 5
    /\ pAwait = {}

C13_ErrorMeansNoStatistics ==
    pPc = "returned"
    => /\ pErr # "" => Deref(pResult).Error # ""
       /\ Deref(pResult).Error # ""
          => /\ Deref(pResult).Transmitted = 0
             /\ Deref(pResult).Received = 0
             /\ Deref(pResult).Loss = ZeroLoss

\* ping.NewPinger returned an error: there is no pinger, and the call has
\* returned
ConstructionFailed == pPc = "returned" /\ pTimeout = 0 /\ pCount = 0

\* C14: when the construction of the pinger fails, PingCheck returns at once
\* with Error set and all statistics zero, without registering a signal
\* handler, installing callbacks or entering the Running state.
C14_ConstructionFailure ==
    /\ [](ConstructionFailed
          => /\ Deref(pResult) = [ZeroPing EXCEPT !.URL = PingDomain,
                                                  !.Error = Deref(pResult).Error]
             /\ Deref(pResult).Error # ""
             /\ pHooks = {}
             /\ pClock = 0 /\ pSent = 0 /\ ~pStopped
             /\ pReturns = 1)
    /\ [][(pPc = "call" /\ pTimeout' = 0) => (pPc' = "returned" /\ pHooks' = {})]_vars
    /\ [][pPc' = "running" => pHooks = AllHooks]_vars

\* NewPinger has failed and the call has returned
C14_Witness == ConstructionFailed /\ pReturns = 1 /\ Deref(pResult).Error # ""

(***************************************************************************)
(* Properties of a pass and its report, checked under Spec.                *)
(***************************************************************************)
\* a full pass has run to its end with no failure of the file system
PassEnded == mPc = "exit" /\ ~terminated /\ FullPass /\ faults = 0

\* C15: whichever probe tasks fail, the pass completes and persists a report
\* that holds the result of every failed task, with its Error, together with
\* the unchanged result of every task that succeeded: no probe failure
\* suppresses the save.
C15_GracefulDegradation ==
    PassEnded
    => /\ sRet["main"].err = ""
       /\ mOut = "Results saved"
       /\ file = DocFile(MarshalIndent(Deref(sRep["main"])))
       /\ \A t \in TaskIds : Occurrences(Deref(sRep["main"]), t) = 1

(***************************************************************************)
(* Properties of the store and of the pass that uses it, checked under     *)
(* ProgramSpec.                                                            *)
(***************************************************************************)
\* C16: LoadResults returns a non-nil error and a nil report when the file
\* exists but cannot be read or parsed; SaveResults returns a non-nil error
\* when the write fails; a pass whose SaveResults failed reports the failure,
\* has called SaveResults once only, and does not announce results as saved.
C16_StoreFailuresPropagate ==
    /\ [](\A c \in Callers :
            (Loaded(c) /\ sSaw[c].kind # "none"
                       /\ (sSaw[c].failed \/ sSaw[c].kind # "doc"))
            => (sRet[c].err # "" /\ sRet[c].res = Nil))
    /\ [][\A c \in Callers :
            (/\ sPc[c] \in {"S_write", "S_writing"}
             /\ sPc'[c] = "S_ret"
             /\ file' # DocFile(sBuf[c]))
            => sRet'[c].err # ""]_vars
    /\ []((mPc = "exit" /\ ~terminated /\ launched > 0)
          => /\ mSaves = 1
             /\ sRet["main"].err # "" => mOut = "Error saving results"
             /\ mOut = "Results saved"
                => (sRet["main"].err = ""
                    /\ file = DocFile(MarshalIndent(Deref(sRep["main"])))))

\* the write of a full pass failed and main has logged the error
C16_Witness ==
    /\ mPc = "exit" /\ ~terminated /\ FullPass
    /\ faults = 1
    /\ sRet["main"].err = "network"
    /\ mOut = "Error saving results"
    /\ file = TornFile

\* C17: SaveResults called with a nil report returns a validation error
\* in one step that neither takes resultsMutex nor changes the file; called
\* with a report that cannot be serialized (a NaN loss) it returns a parse
\* error, and no step of that call changes the file.
C17_SaveValidation ==
    /\ [](\A c \in Clients :
            (sPc[c] = "idle" /\ sOp[c] = "Save")
            => /\ sRep[c] = Nil => sRet[c].err = "validation"
               /\ (sRep[c] # Nil /\ Deref(sRep[c]).PingTest.Loss = NaN)
                  => sRet[c].err = "parse")
    /\ [][\A c \in Clients :
            (sOp[c] = "Save" /\ sPc[c] # "idle" /\ sPc'[c] # sPc[c])
            => /\ sRep[c] = Nil
                  => /\ sPc'[c] = "idle"
                     /\ resultsMutex' = resultsMutex
                     /\ file' = file
               /\ (sRep[c] # Nil /\ Deref(sRep[c]).PingTest.Loss = NaN)
                  => file' = file]_vars

\* one client was refused a nil report and the other a report with a NaN
\* loss, and the file that was there before is still there
C17_Witness ==
    /\ sPc["c1"] = "idle" /\ sOp["c1"] = "Save" /\ sRet["c1"].err = "validation"
    /\ sPc["c2"] = "idle" /\ sOp["c2"] = "Save" /\ sRet["c2"].err = "parse"
    /\ file = DocFile(MarshalIndent(FullReport("old", OldTime)))

(***************************************************************************)
(* Properties of the two invocation modes, checked under Spec.             *)
(***************************************************************************)
\* C18: with arguments, the only goroutines are HTTP probes, one per
\* argument, no speed, VPN or ping result is ever stored, and a report that
\* reached the file holds one http_tests entry per argument, no speed_tests
\* and zero-valued vpn_test and ping_test records; without arguments, every
\* built-in HTTP and speed target, the VPN check and every ping domain has a
\* goroutine, and all of them have run before the report is built.
C18_InvocationModes ==
    /\ Len(args) > 0
       => /\ Len(Tasks) = Len(args)
          /\ \A t \in TaskIds : Tasks[t] = Task("arg", args[t], t)
          /\ speedTests = Nil /\ vpnTest = Nil /\ pingTest = Nil
          /\ (mPc = "exit" /\ ~terminated /\ sRet["main"].err = "")
             => /\ file.kind = "doc"
                /\ SliceLen(file.doc.http_tests) = Len(args)
                /\ \A t \in TaskIds :
                      Elems(file.doc.http_tests)[t] = HTTPDoc(Deref(tOut[t]))
                /\ file.doc.speed_tests = Nil
                /\ VPNOf(Deref(file.doc.vpn_test)) = ZeroVPN
                /\ PingOf(Deref(file.doc.ping_test)) = ZeroPing
    /\ Len(args) = 0
       => /\ \A i \in 1..Len(httpURLs) :
                \E t \in TaskIds : Tasks[t] = Task("http", httpURLs[i], i)
          /\ \A i \in 1..Len(speedURLs) :
                \E t \in TaskIds : Tasks[t] = Task("speed", speedURLs[i], i)
          /\ \E t \in TaskIds : Tasks[t].kind = "vpn"
          /\ \A i \in 1..Len(pingDomains) :
                \E t \in TaskIds : Tasks[t] = Task("ping", pingDomains[i], i)
          /\ \A t \in TaskIds : Tasks[t].kind # "arg"
          /\ (mPc \in {"collect", "saving", "exit"} /\ ~terminated)
             => \A t \in TaskIds : tPc[t] = "done" /\ tOut[t] # Nil

\* a pass with two argument URLs has saved its report
C18_Witness ==
    /\ Len(args) = 2
    /\ mPc = "exit" /\ ~terminated
    /\ sRet["main"].err = ""
    /\ file.kind = "doc" /\ SliceLen(file.doc.http_tests) = 2

\* C19: in the file that a pass has written, http_tests and speed_tests are
\* present exactly when the report's sequences are not empty, vpn_test and
\* ping_test are present exactly when the report's records are not
\* zero-valued, and timestamp is present; so the file of a pass with
\* arguments has neither vpn_test nor ping_test.
C19_FieldOmission ==
    (mPc = "exit" /\ ~terminated /\ sRet["main"].err = "")
    => LET r == Deref(sRep["main"]) IN
       /\ file.kind = "doc"
       /\ file.doc.http_tests = Nil <=> SliceLen(r.HTTPTests) = 0
       /\ file.doc.speed_tests = Nil <=> SliceLen(r.SpeedTests) = 0
       /\ file.doc.vpn_test = Nil <=> r.VPNTest = ZeroVPN
       /\ file.doc.ping_test = Nil <=> r.PingTest = ZeroPing
       /\ file.doc.timestamp # Nil
       /\ Len(args) > 0 => file.doc.vpn_test = Nil /\ file.doc.ping_test = Nil

(***************************************************************************)
(* Properties of the orchestrator's shared result state, checked under     *)
(* Spec.  A step writes a slot when it changes httpTests, speedTests,      *)
(* vpnTest or pingTest of a process that lives on.                         *)
(***************************************************************************)
\* C20 as stated: every step of a pass that writes httpTests, speedTests,
\* vpnTest or pingTest is taken by a task that holds mu.
C20_AllWritesLocked ==
    [][(/\ ~terminated'
        /\ \/ httpTests' # httpTests
           \/ speedTests' # speedTests
           \/ vpnTest' # vpnTest
           \/ pingTest' # pingTest)
       => \E t \in TaskIds : mu = Ptr(t) /\ tPc[t] = "cs" /\ tPc'[t] = "done"]_vars

\* C20: in runAllTests every step that writes httpTests, speedTests or
\* pingTest is taken by the task that holds mu; vpnTest is written without
\* mu by the one VPN task, and in runHTTPTests each task writes without mu
\* the one element of httpTests that has its own index.
C20_SharedWritesLockedOrOwned ==
    [][/\ (/\ ~terminated'
           /\ Len(args) = 0
           /\ \/ httpTests' # httpTests
              \/ speedTests' # speedTests
              \/ pingTest' # pingTest)
          => \E t \in TaskIds : mu = Ptr(t) /\ tPc[t] = "cs" /\ tPc'[t] = "done"
       /\ (~terminated' /\ vpnTest' # vpnTest)
          => /\ Cardinality(TasksOf("vpn")) = 1
             /\ \E t \in TasksOf("vpn") : tPc[t] = "probe" /\ tPc'[t] = "done"
       /\ (~terminated' /\ Len(args) > 0 /\ httpTests' # httpTests)
          => \E t \in TaskIds :
                /\ tPc[t] = "probe" /\ tPc'[t] = "done"
                /\ \A u \in TaskIds : Tasks[u].index = Tasks[t].index => u = t
                /\ \A i \in 1..SliceLen(httpTests) :
                      i # Tasks[t].index
                      => Elems(httpTests')[i] = Elems(httpTests)[i]]_vars

\* a task of runAllTests holds mu and is about to store its result, after
\* the VPN task has stored its own
C20_Witness ==
    /\ Len(args) = 0
    /\ vpnTest # Nil
    /\ \E t \in TaskIds : mu = Ptr(t) /\ tPc[t] = "cs" /\ Tasks[t].kind = "http"
    /\ SliceLen(httpTests) = 1

(***************************************************************************)
(* Properties of the two mutexes of a pass, checked under Spec.            *)
(***************************************************************************)
\* C21: mu and resultsMutex are never held at the same time: whoever holds
\* or waits for resultsMutex is main, after the join, when no task holds or
\* waits for mu; and no task that holds or waits for mu is in the store.
C21_MutexesNeverNested ==
    /\ ~(mu # Nil /\ resultsMutex # Nil)
    /\ resultsMutex # Nil => resultsMutex = Ptr("main")
    /\ sPc["main"] # "idle"
       => /\ mu = Nil
          /\ \A t \in TaskIds : tPc[t] \notin {"lock", "cs"}
    /\ \A c \in Clients : sPc[c] = "idle"

\* main holds resultsMutex in SaveResults after tasks have used mu
C21_Witness ==
    /\ FullPass
    /\ resultsMutex = Ptr("main")
    /\ SliceLen(httpTests) = NumHTTP
    /\ pingTest # Nil

(***************************************************************************)
(* Properties of the probe results of a pass, checked under Spec.          *)
(***************************************************************************)
\* C22: TestHTTP, CheckSpeed, CheckVPN and PingCheck return a non-nil
\* result whatever the network does; so every task that has left its probe
\* call has a result, after the join no element of httpTests or speedTests
\* is nil, the report holds as many HTTP and speed results as were
\* collected, and so does the file once it is saved.
C22_ProbesNeverReturnNil ==
    /\ \A net \in HTTPNet : TestHTTP("u", net) # Nil
    /\ \A net \in SpeedNet : CheckSpeed("u", net) # Nil
    /\ \A net \in VPNNet : CheckVPN(net) # Nil
    /\ \A k \in {"newfail", "listenfail", "sendfail", "recvfail", "finished"} :
          PingCheckResult("d", PingEnd(k, 0, 0)) # Nil
    /\ \A t \in TaskIds : tPc[t] \in {"lock", "cs", "done"} => tOut[t] # Nil
    /\ (mPc \in {"collect", "saving", "exit"} /\ ~terminated)
       => /\ \A i \in 1..SliceLen(httpTests) : Elems(httpTests)[i] # Nil
          /\ \A i \in 1..SliceLen(speedTests) : Elems(speedTests)[i] # Nil
          /\ SliceLen(httpTests) = Cardinality(TasksOf("http") \cup TasksOf("arg"))
          /\ SliceLen(speedTests) = Cardinality(TasksOf("speed"))
    /\ Handed
       => /\ SliceLen(Deref(sRep["main"]).HTTPTests) = SliceLen(httpTests)
          /\ SliceLen(Deref(sRep["main"]).SpeedTests) = SliceLen(speedTests)
    /\ (mPc = "exit" /\ ~terminated /\ sRet["main"].err = "")
       => /\ SliceLen(file.doc.http_tests) = SliceLen(httpTests)
          /\ SliceLen(file.doc.speed_tests) = SliceLen(speedTests)

\* a full pass has saved a report that holds the result of a failed HTTP
\* probe and of a failed speed probe
C22_Witness ==
    /\ FullPass
    /\ mPc = "exit" /\ ~terminated /\ sRet["main"].err = ""
    /\ SliceLen(file.doc.http_tests) = NumHTTP
    /\ \E t \in TasksOf("http") : Deref(tOut[t]).Error # ""
    /\ \E t \in TasksOf("speed") : Deref(tOut[t]).Error # ""

(***************************************************************************)
(* Properties of AppendResult, checked under StoreSpec.                    *)
(***************************************************************************)
\* C23: when the LoadResults of an AppendResult call read a report from the
\* file, the write of that call leaves a file whose HTTP and speed sequences
\* are the loaded ones followed by the given ones, whose VPN and ping
\* records are the given ones, or the loaded ones where nil was given, and
\* whose timestamp is an instant of time.Now.
C23_AppendMerges ==
    [][\A c \in Clients :
          (/\ sOp[c] = "Append"
           /\ sPc[c] = "S_writing" /\ sPc'[c] = "S_ret"
           /\ sRet'[c].err = ""
           /\ sSaw[c].kind = "doc" /\ sRet[c].err = "")
          => LET old == Deref(sRet[c].res)
                 a == sApp[c]
                 new == Unmarshal(file'.doc)
             IN /\ file'.kind = "doc"
                /\ Elems(new.HTTPTests) = Elems(old.HTTPTests) \o Elems(a.http)
                /\ Elems(new.SpeedTests) = Elems(old.SpeedTests) \o Elems(a.speed)
                /\ new.VPNTest = IF a.vpn # Nil THEN Deref(a.vpn) ELSE old.VPNTest
                /\ new.PingTest = IF a.ping # Nil THEN Deref(a.ping) ELSE old.PingTest
                /\ new.Timestamp.inst \in Instants]_vars

\* AppendResult has added a client's HTTP result to the report that was in
\* the file from the start
C23_Witness ==
    \E c \in Clients :
        /\ Appended(c) /\ sRet[c].err = "" /\ sSaw[c].kind = "doc"
        /\ sCalls = 1
        /\ FileHasHTTP(HTTPItem("old")) /\ FileHasHTTP(HTTPItem(c))
        /\ Len(file.doc.http_tests[1]) = 3

C25_ErrorMeansNoStatus ==
    \A t \in TasksOf("arg") \cup TasksOf("http") :
        tOut[t] # Nil
        => /\ Deref(tOut[t]).URL = Tasks[t].target
           /\ Deref(tOut[t]).Error # "" => Deref(tOut[t]).Status = ""

\* C25: every result of TestHTTP has URL set to the target; when the request
\* could not be built or client.Do failed, Error is non-empty and Status is
\* empty; when the body could not be read, Error is non-empty and Status is
\* the status of the response; otherwise Error is empty.
C25_ErrorAndStatus ==
    \A t \in TasksOf("arg") \cup TasksOf("http") :
        tOut[t] # Nil
        => LET r == Deref(tOut[t]) IN
           /\ r.URL = Tasks[t].target
           /\ r.Error \in {"", "invalid URL", "request failed", "read failed"}
           /\ r.Error \in {"invalid URL", "request failed"}
              => r.Status = "" /\ r.Proto = "" /\ r.ResponseLength = 0
           /\ r.Error = "read failed" => r.Status # "" /\ r.ResponseLength = 0
           /\ r.Error = "" => r.Status # ""

\* of two argument URLs one got no response and the other a response whose
\* body could not be read
C25_Witness ==
    /\ Len(args) = 2
    /\ tOut[1] # Nil /\ Deref(tOut[1]).Error = "request failed"
    /\ tOut[2] # Nil /\ Deref(tOut[2]).Error = "read failed"

(***************************************************************************)
(* Properties of the critical sections of runAllTests, checked under Spec. *)
(***************************************************************************)
\* C26: a task holds mu only between the return of its probe call and its
\* single append or assignment, which it can then take at once; and a task
\* that is in its probe call can complete it whoever holds mu.
C26_NoProbeUnderMutex ==
    /\ \A t \in TaskIds :
          mu = Ptr(t)
          => /\ tPc[t] = "cs"
             /\ tRes[t] # Nil /\ tRes[t] = tOut[t]
             /\ ENABLED TaskStore(t)
    /\ \A t \in TaskIds :
          (tPc[t] = "probe" /\ ~terminated)
          => /\ mu # Ptr(t)
             /\ Tasks[t].kind = "arg" => ENABLED ArgProbe(t)
             /\ Tasks[t].kind = "http" => ENABLED HTTPProbe(t)
             /\ Tasks[t].kind = "speed" => ENABLED SpeedProbe(t)
             /\ Tasks[t].kind = "vpn" => ENABLED VPNProbe(t)
             /\ Tasks[t].kind = "ping" => ENABLED PingProbe(t)

\* a task holds mu while an HTTP task and a ping task are in their probe
\* calls
C26_Witness ==
    \E t \in TaskIds, u \in TasksOf("http"), v \in TasksOf("ping") :
        /\ mu = Ptr(t)
        /\ tPc[u] = "probe" /\ tPc[v] = "probe"

(***************************************************************************)
(* A pass under interrupts.  PingCheck is followed in two steps: up to     *)
(* signal.Notify, and from there to its return.  A registered channel      *)
(* stays registered; with none registered an interrupt kills the process.  *)
(***************************************************************************)
DeliveredToOne(n) == IF n = {} THEN {} ELSE {CHOOSE t \in n : TRUE}

\* os/signal sends the interrupt to every registered channel
Delivered(n) == n

\* PingCheck up to go func() { for range c { pinger.Stop() } }()
PingCheckStart(t) ==
    /\ ~terminated
    /\ tPc[t] = "probe"
    /\ Tasks[t].kind = "ping"
    /\ \E ok \in BOOLEAN :
          IF ok
          THEN /\ notified' = notified \cup {t}
               /\ tPc' = [tPc EXCEPT ![t] = "pinging"]
               /\ UNCHANGED <<tRes, tOut>>
          ELSE /\ tRes' = [tRes EXCEPT ![t] =
                              PingCheckResult(Tasks[t].target, PingEnd("newfail", 0, 0))]
               /\ tOut' = [tOut EXCEPT ![t] =
                              PingCheckResult(Tasks[t].target, PingEnd("newfail", 0, 0))]
               /\ tPc' = [tPc EXCEPT ![t] = "lock"]
               /\ UNCHANGED notified
    /\ UNCHANGED <<args, mPc, launched, mSaves, mOut, wg, mu, httpTests, speedTests,
                   vpnTest, pingTest, terminated>>
    /\ UNCHANGED <<cfg, pPc, pTimeout, pCount, pClock, pSent, pRecv, pDup, pAwait,
                   pStopped, pErr, pResult, pReturns, pHooks>>
    /\ UNCHANGED storeVars

\* how a session ends: stopped by the handler after two requests and one
\* reply, or by itself as in a pass without interrupts
SessionEnds(stopped) ==
    IF stopped THEN {PingEnd("finished", 2, 1)}
    ELSE PassPingEnds \ {PingEnd("newfail", 0, 0)}

\* pinger.Run() returns, OnFinish having run, and PingCheck returns
PingCheckEnd(t) ==
    /\ ~terminated
    /\ tPc[t] \in {"pinging", "stopped"}
    /\ \E o \in SessionEnds(tPc[t] = "stopped") :
          /\ tRes' = [tRes EXCEPT ![t] = PingCheckResult(Tasks[t].target, o)]
          /\ tOut' = [tOut EXCEPT ![t] = PingCheckResult(Tasks[t].target, o)]
    /\ tPc' = [tPc EXCEPT ![t] = "lock"]
    /\ UNCHANGED <<args, mPc, launched, mSaves, mOut, wg, mu, httpTests, speedTests,
                   vpnTest, pingTest, terminated>>
    /\ UNCHANGED <<storeVars, pingVars>>

\* the operating system delivers os.Interrupt to the process of the pass:
\* every handler that receives it calls pinger.Stop() of its own pinger
Interrupt ==
    /\ ~terminated
    /\ mPc # "exit"
    /\ IF notified = {}
       THEN Terminate
       ELSE /\ tPc' = [t \in TaskIds |->
                          IF t \in Delivered(notified) /\ tPc[t] = "pinging"
                          THEN "stopped" ELSE tPc[t]]
            /\ UNCHANGED <<args, mPc, launched, mSaves, mOut, tRes, tOut, wg, mu,
                           httpTests, speedTests, vpnTest, pingTest, terminated>>
            /\ UNCHANGED <<storeVars, pingVars>>

SignalInit == Init /\ file = NoFile

SignalNext ==
    \/ Launch
    \/ Wait
    \/ Collect
    \/ SaveEntry("main")
    \/ SaveLock("main")
    \/ SaveMarshal("main")
    \/ SaveOpen("main")
    \/ SaveWrite("main")
    \/ SaveReturn("main")
    \/ Announce
    \/ \E t \in TaskIds : ArgProbe(t)
    \/ \E t \in TaskIds : HTTPProbe(t)
    \/ \E t \in TaskIds : SpeedProbe(t)
    \/ \E t \in TaskIds : VPNProbe(t)
    \/ \E t \in TaskIds : PingCheckStart(t)
    \/ \E t \in TaskIds : PingCheckEnd(t)
    \/ \E t \in TaskIds : TaskLock(t)
    \/ \E t \in TaskIds : TaskStore(t)
    \/ Interrupt

SignalSpec == SignalInit /\ [][SignalNext]_vars

C28_SaveStampsOnlyZeroTime ==
    /\ [][\A c \in Clients :
             (sPc[c] \in {"S_entry", "S_lock", "S_marshal", "S_write", "S_writing",
                          "S_ret"}
              /\ sRep[c] # Nil)
             => /\ sRep'[c] # Nil
                /\ (sPc[c] # "S_marshal" \/ sPc'[c] = "S_marshal")
                   => sRep'[c] = sRep[c]
                /\ (sPc[c] = "S_marshal" /\ sPc'[c] # "S_marshal")
                   => IF IsZero(Deref(sRep[c]).Timestamp)
                      THEN Deref(sRep'[c]).Timestamp.inst \in Instants
                      ELSE Deref(sRep'[c]).Timestamp = Deref(sRep[c]).Timestamp
                /\ [Deref(sRep'[c]) EXCEPT !.Timestamp = Deref(sRep[c]).Timestamp]
                   = Deref(sRep[c])]_vars
    /\ [][file' # file
          => \E c \in Clients :
                \/ sPc[c] = "S_write" /\ sPc'[c] = "S_writing"
                \/ sPc[c] = "S_writing" /\ sPc'[c] = "S_ret"]_vars
    /\ [][\A c \in Clients : sPc[c] = "S_ret" => sPc'[c] \in {"S_ret", "idle"}]_vars
    /\ [](\A c \in Clients :
            (sPc[c] = "S_ret" /\ sRet[c].err = "")
            => /\ file = DocFile(sBuf[c])
               /\ file.doc.timestamp # Nil
               /\ Deref(file.doc.timestamp) # 0
               /\ Deref(file.doc.timestamp) = Deref(sRep[c]).Timestamp.inst)

\* one client has saved a report that came with a zero Timestamp and the
\* other a report that came with the Timestamp of OldTime
C28_Witness ==
    /\ sPc["c1"] = "idle" /\ sOp["c1"] = "Save" /\ sRet["c1"].err = ""
    /\ sRep["c1"] # Nil /\ Deref(sRep["c1"]).Timestamp.inst \in Instants
    /\ sPc["c2"] = "S_ret" /\ sOp["c2"] = "Save" /\ sRet["c2"].err = ""
    /\ Deref(sRep["c2"]).Timestamp = OldTime
    /\ file.doc.timestamp = Ptr(OldTime.inst)

(***************************************************************************)
(* Properties of the ping slot of runAllTests, checked under Spec.         *)
(***************************************************************************)
\* C29: the first ping task that takes its critical section stores its
\* result in pingTest, with or without an error in it; pingTest is not
\* written again; the report handed to SaveResults holds that result, and so
\* does the file when the save has succeeded.
C29_PingSlotWriteOnce ==
    /\ [][\A t \in TasksOf("ping") :
             (tPc[t] = "cs" /\ tPc'[t] = "done")
             => pingTest' = IF pingTest = Nil THEN tRes[t] ELSE pingTest]_vars
    /\ [][(pingTest # Nil /\ ~terminated') => pingTest' = pingTest]_vars
    /\ []((FullPass /\ Handed)
          => /\ pingTest # Nil
             /\ Deref(sRep["main"]).PingTest = Deref(pingTest)
             /\ \E t \in TasksOf("ping") : pingTest = tOut[t])
    /\ []((FullPass /\ mPc = "exit" /\ ~terminated /\ sRet["main"].err = "")
          => file.doc.ping_test = Ptr(PingDoc(Deref(pingTest))))

\* the file holds the failed result of the ping task that came first, and
\* the other ping task's statistics were dropped
C29_Witness ==
    /\ FullPass
    /\ mPc = "exit" /\ ~terminated /\ sRet["main"].err = ""
    /\ Deref(pingTest).Error # ""
    /\ file.doc.ping_test = Ptr(PingDoc(Deref(pingTest)))
    /\ \E t \in TasksOf("ping") : Deref(tOut[t]).Error = "" /\ tOut[t] # pingTest

C31_InterruptedPassPersists ==
    /\ [][~terminated' => notified \subseteq notified']_vars
    /\ [][(Interrupt /\ notified # {}) => ~terminated']_vars
    /\ []((/\ mPc = "exit" /\ faults = 0
           /\ \E t \in TasksOf("ping") :
                 tOut[t] # Nil /\ Deref(tOut[t]) \in
                    {Deref(PingCheckResult(Tasks[t].target, o)) : o \in SessionEnds(TRUE)})
          => /\ ~terminated
             /\ sRet["main"].err = ""
             /\ mOut = "Results saved"
             /\ file.kind = "doc")

(***************************************************************************)
(* Properties of the result slots of runHTTPTests, checked under Spec.     *)
(***************************************************************************)
\* C32 as stated: in a pass with arguments each task writes only the slot at
\* its own index, once; the slots are read after the join; and the saved
\* file has one http_tests entry per argument, the i-th with the i-th
\* argument as its url.
C32_SlotsInArgumentOrder ==
    /\ [][(Len(args) > 0 /\ httpTests' # httpTests /\ ~terminated')
          => \E t \in TaskIds :
                /\ tPc[t] = "probe" /\ tPc'[t] = "done"
                /\ Elems(httpTests)[t] = Nil
                /\ \A i \in TaskIds \ {t} : Elems(httpTests')[i] = Elems(httpTests)[i]]_vars
    /\ []((Len(args) > 0 /\ Handed)
          => /\ \A t \in TaskIds : tPc[t] = "done"
             /\ SliceLen(Deref(sRep["main"]).HTTPTests) = Len(args)
             /\ \A i \in 1..Len(args) :
                   Elems(Deref(sRep["main"]).HTTPTests)[i].URL = args[i])
    /\ []((Len(args) > 0 /\ mPc = "exit" /\ ~terminated /\ sRet["main"].err = "")
          => /\ SliceLen(file.doc.http_tests) = Len(args)
             /\ \A i \in 1..Len(args) :
                   Elems(file.doc.http_tests)[i].url = Ptr(args[i]))

\* C32: as above, the url of the i-th saved entry being the i-th argument
\* with every byte that is not valid UTF-8 replaced by U+FFFD.
C32_SlotsInArgumentOrderCoerced ==
    /\ [][(Len(args) > 0 /\ httpTests' # httpTests /\ ~terminated')
          => \E t \in TaskIds :
                /\ tPc[t] = "probe" /\ tPc'[t] = "done"
                /\ Elems(httpTests)[t] = Nil
                /\ \A i \in TaskIds \ {t} : Elems(httpTests')[i] = Elems(httpTests)[i]]_vars
    /\ []((Len(args) > 0 /\ Handed)
          => /\ \A t \in TaskIds : tPc[t] = "done"
             /\ SliceLen(Deref(sRep["main"]).HTTPTests) = Len(args)
             /\ \A i \in 1..Len(args) :
                   Elems(Deref(sRep["main"]).HTTPTests)[i].URL = args[i])
    /\ []((Len(args) > 0 /\ mPc = "exit" /\ ~terminated /\ sRet["main"].err = "")
          => /\ SliceLen(file.doc.http_tests) = Len(args)
             /\ \A i \in 1..Len(args) :
                   Elems(file.doc.http_tests)[i].url = Ptr(CoerceUTF8(args[i])))

\* a pass with two different arguments, the second not valid UTF-8, has
\* saved its report
C32_Witness ==
    /\ Len(args) = 2 /\ args[1] # args[2] /\ args[2] = InvalidUTF8
    /\ mPc = "exit" /\ ~terminated /\ sRet["main"].err = ""
    /\ SliceLen(file.doc.http_tests) = 2

(***************************************************************************)
(* Properties of resultsMutex over the return paths of the store, checked  *)
(* under StoreSpec.                                                        *)
(***************************************************************************)
\* C33: resultsMutex is held exactly by a caller between its Lock and its
\* return; every return of LoadResults and SaveResults, whatever error it
\* returns, leaves the mutex free; and a caller at Lock can either take the
\* mutex or its holder can take its next step towards its return.
C33_MutexReleasedOnEveryReturn ==
    /\ [](\A c \in Clients : resultsMutex = Ptr(c) <=> InCriticalSection(c))
    /\ []((\A c \in Clients : ~InCriticalSection(c)) => resultsMutex = Nil)
    /\ [][\A c \in Clients :
             (sPc[c] \in {"L_ret", "S_ret"} /\ sPc'[c] # sPc[c])
             => /\ resultsMutex' = Nil
                /\ sRet'[c] = sRet[c]
                /\ sRet[c].err \in {"", "network", "parse"}]_vars
    /\ [](\A c \in Clients :
             sPc[c] \in {"L_lock", "S_lock"}
             => IF resultsMutex = Nil
                THEN ENABLED (LoadLock(c) \/ SaveLock(c))
                ELSE \E d \in Clients \ {c} :
                        /\ resultsMutex = Ptr(d)
                        /\ ENABLED (\/ LoadRead(d) \/ LoadReturn(d) \/ SaveMarshal(d)
                                    \/ SaveOpen(d) \/ SaveWrite(d) \/ SaveReturn(d)))

\* one caller has returned from LoadResults with a parse error, and another
\* then took the mutex in SaveResults and is returning a marshal error
C33_Witness ==
    \E c \in Clients, d \in Clients :
       /\ c # d
       /\ sPc[c] = "idle" /\ sOp[c] = "Load" /\ sRet[c].err = "parse"
       /\ sPc[d] = "S_ret" /\ sRet[d].err = "parse"
       /\ resultsMutex = Ptr(d)

====
